---- MODULE Spec2Model ----
(***************************************************************************)
(* mc2 (mini-cross2): a toolchain file with mixin references is loaded     *)
(* into a flattened tree (config/mixin.rs), converted into a Dockerfile    *)
(* (convert.rs), tagged by the digest of its text and built/run through   *)
(* the docker CLI (docker.rs), driven by main (main.rs).                   *)
(*                                                                         *)
(* Conventions of the model                                                *)
(*  - Option<T> is a sequence of length 0 (None) or 1 (Some).              *)
(*  - A string whose characters matter (an image reference) is a sequence  *)
(*    of one-character strings; every other text is a sequence of words.   *)
(*  - A path is the sequence of its components.                            *)
(***************************************************************************)
EXTENDS Integers, Sequences, FiniteSets, TLC

\* ------------------------------------------------------------------ bounds
\* number of toolchain files besides none: files 1..NumNodes, file 1 the root
NumNodes == 4
\* longest `mixin:` list of a file
MaxRefs == 2
\* longest `install:` list of a file
MaxInstall == 2
\* invocations of the program against the same image store
MaxRuns == 2
\* files (1..NumInstallers) that carry an `install:` list
NumInstallers == 2
MaxIpLen == 3
MaxTextLen == 5
MaxPathLen == 2
MaxOpts == 2
MaxLines == 4

Nodes == 1..NumNodes

None == <<>>
Some(x) == <<x>>
IsSome(o) == Len(o) = 1
Unwrap(o) == o[1]

Range(s) == {s[i] : i \in 1..Len(s)}

NoDuplicates(s) == \A i, j \in 1..Len(s) : s[i] = s[j] => i = j

RECURSIVE Flatten_in(_, _, _)
\* concatenation of the sequences ss[lo..hi]
Flatten_in(ss, lo, hi) ==
    IF lo > hi THEN <<>>
    ELSE IF lo = hi THEN ss[lo]
    ELSE Flatten_in(ss, lo, (lo + hi) \div 2) \o Flatten_in(ss, (lo + hi) \div 2 + 1, hi)

\* concatenation of a sequence of sequences
Flatten(ss) == Flatten_in(ss, 1, Len(ss))

\* the parts of s between the elements sep
RECURSIVE Split(_, _)
Split(s, sep) ==
    IF \A k \in 1..Len(s) : s[k] # sep THEN <<s>>
    ELSE LET k == CHOOSE k \in 1..Len(s) : s[k] = sep /\ \A j \in 1..(k - 1) : s[j] # sep
         IN <<SubSeq(s, 1, k - 1)>> \o Split(SubSeq(s, k + 1, Len(s)), sep)

\* the words of a text
Words(text) == Split(text, " ")

\* ------------------------------------------------------- character strings
UpperChars == <<"A","B","C","D","E","F","G","H","I","J","K","L","M",
                "N","O","P","Q","R","S","T","U","V","W","X","Y","Z">>
LowerChars == <<"a","b","c","d","e","f","g","h","i","j","k","l","m",
                "n","o","p","q","r","s","t","u","v","w","x","y","z">>

\* Characters that cannot be written in a string here are written by their
\* code points: the grave accent, the capital and the small e with acute, the
\* Kelvin sign, the capital I with dot above, the combining dot above, and
\* the capital, the small and the final sigma
OtherChars ==
    {"U+0060", "U+00C9", "U+00E9", "U+212A", "U+0130", "U+0307", "U+03A3", "U+03C3",
     "U+03C2"}

\* the capitals among them but the sigma, and what each lowers to
OtherCapitals == <<"U+00C9", "U+212A", "U+0130">>
OtherLowered == <<<<"U+00E9">>, <<"k">>, <<"i", "U+0307">>>>
Sigma == "U+03A3"

\* A String is the sequence of its characters.  Where a text is put together
\* from parts (format!, join, Display) the parts are given as pieces, each a
\* character, or written as a string of ASCII characters; Chars gives the
\* String of the pieces
Explode(piece) ==
    IF piece \in OtherChars THEN <<piece>>
    ELSE [i \in 1..Len(piece) |-> SubSeq(piece, i, i)]
Chars(pieces) == Flatten([k \in 1..Len(pieces) |-> Explode(pieces[k])])

\* char::to_lowercase: the characters c lowers to
ToLowerChar(c) ==
    IF \E i \in 1..26 : UpperChars[i] = c
    THEN <<LowerChars[CHOOSE i \in 1..26 : UpperChars[i] = c]>>
    ELSE IF \E i \in 1..Len(OtherCapitals) : OtherCapitals[i] = c
    THEN OtherLowered[CHOOSE i \in 1..Len(OtherCapitals) : OtherCapitals[i] = c]
    ELSE IF c = Sigma THEN <<"U+03C3">>
    ELSE <<c>>

\* the properties Cased and Case_Ignorable of the characters of the texts
Cased(c) ==
    c \in Range(UpperChars) \cup Range(LowerChars)
             \cup (OtherChars \ {"U+0060", "U+0307"})
Case_Ignorable(c) == c \in {"'", ".", ":", "^", "U+0060", "U+0307"}

\* case_ignorable_then_cased of the characters s[k], s[k + step], ...: the
\* first that is not Case_Ignorable is Cased
RECURSIVE case_ignorable_then_cased(_, _, _)
case_ignorable_then_cased(s, k, step) ==
    IF k < 1 \/ k > Len(s) THEN FALSE
    ELSE IF Case_Ignorable(s[k]) THEN case_ignorable_then_cased(s, k + step, step)
    ELSE Cased(s[k])

\* map_uppercase_sigma: the capital sigma at s[i] lowers to the final sigma
\* at the end of a word and to the small sigma elsewhere
map_uppercase_sigma(s, i) ==
    IF case_ignorable_then_cased(s, i - 1, -1) /\ ~case_ignorable_then_cased(s, i + 1, 1)
    THEN "U+03C2" ELSE "U+03C3"

ToUpperChar(c) ==
    IF \E i \in 1..26 : LowerChars[i] = c
    THEN UpperChars[CHOOSE i \in 1..26 : LowerChars[i] = c]
    ELSE c

\* str::to_lowercase
to_lowercase(s) ==
    Flatten([i \in 1..Len(s) |-> IF s[i] = Sigma THEN <<map_uppercase_sigma(s, i)>>
                                  ELSE ToLowerChar(s[i])])

\* s.splitn(2, ':').nth(0): the text before the first ':' (all of s without one)
FirstField(s) ==
    IF \E i \in 1..Len(s) : s[i] = ":"
    THEN SubSeq(s, 1, (CHOOSE i \in 1..Len(s) :
                          s[i] = ":" /\ \A j \in 1..(i - 1) : s[j] # ":") - 1)
    ELSE s

\* ---------------------------------------------------------- PackageManager
Tok_fedora == <<"f","e","d","o","r","a">>
Tok_debian == <<"d","e","b","i","a","n">>
Tok_ubuntu == <<"u","b","u","n","t","u">>
Tok_leap == <<"o","p","e","n","s","u","s","e","/","l","e","a","p">>
Tok_tumbleweed ==
    <<"o","p","e","n","s","u","s","e","/","t","u","m","b","l","e","w","e","e","d">>
Tok_archlinux == <<"a","r","c","h","l","i","n","u","x">>
Tok_alpine == <<"a","l","p","i","n","e">>

UnknownBaseMut(s) == [kind |-> "UnknownBase", pm |-> "", raw |-> FirstField(s)]
\* ConversionError::UnknownBase(s.to_string())
UnknownBase(s) == [kind |-> "UnknownBase", pm |-> "", raw |-> s]

PmOk(pm) == [kind |-> "Ok", pm |-> pm, raw |-> <<>>]

\* impl FromStr for PackageManager
PackageManager_from_str(s) ==
    LET base == to_lowercase(FirstField(s))
    IN CASE base = Tok_fedora -> PmOk("DNF")
         [] base = Tok_debian -> PmOk("APT")
         [] base = Tok_ubuntu -> PmOk("APT")
         [] base = Tok_leap -> PmOk("ZYPPER")
         [] base = Tok_tumbleweed -> PmOk("ZYPPER")
         [] base = Tok_archlinux -> PmOk("PACMAN")
         [] base = Tok_alpine -> PmOk("APK")
         [] OTHER -> UnknownBase(s)

\* PackageManager::install_prefix
install_prefix(pm) ==
    CASE pm = "DNF" -> "dnf install -y"
      [] pm = "ZYPPER" -> "zypper install -y"
      [] pm = "PACMAN" -> "pacman -S --noconfirm"
      [] pm = "APT" -> "apt install -y"
      [] pm = "APK" -> "apk add"

\* PackageManager::upgrade
upgrade(pm) ==
    CASE pm = "DNF" -> "dnf upgrade -y"
      [] pm = "ZYPPER" -> "zypper update -y"
      [] pm = "PACMAN" -> "pacman -Syu --noconfirm"
      [] pm = "APT" -> "apt update && apt upgrade -y"
      [] pm = "APK" -> "apk update"

\* ------------------------------------------------------------------ Command
\* docker.rs Command: op and up to two Strings, each given as its pieces
FROM(image) == [op |-> "FROM", a |-> Chars(image), b |-> <<>>]
COMMENT(text) == [op |-> "COMMENT", a |-> Chars(text), b |-> <<>>]
ENV(k, v) == [op |-> "ENV", a |-> Chars(k), b |-> Chars(v)]
ARG(k, v) == [op |-> "ARG", a |-> Chars(k), b |-> Chars(v)]
RUN(cmd) == [op |-> "RUN", a |-> Chars(cmd), b |-> <<>>]
COPY(src, dst) == [op |-> "COPY", a |-> Chars(src), b |-> Chars(dst)]

\* [String]::join(" "): the pieces of the texts with a blank between two
Joined(texts) ==
    Flatten([k \in 1..Len(texts) |-> IF k = 1 THEN <<texts[k]>> ELSE <<" ", texts[k]>>])

\* PackageManager::install: format!("{} {}", prefix, packages.join(" "))
install(pm, packages) == RUN(<<install_prefix(pm), " ">> \o Joined(packages))

\* PackageManager::defaults
defaults(pm) ==
    <<COMMENT(<<"Ensure UTF-8 Support">>),
      ENV(<<"LANG">>, <<"en_US.UTF-8">>),
      ENV(<<"LANGUAGE">>, <<"en_US:en">>),
      ENV(<<"LC_ALL">>, <<"en_US.UTF-8">>)>>
    \o (CASE pm = "DNF" ->
               <<install(pm, <<"glibc-locale-source">>),
                 RUN(<<"localedef --force --inputfile=en_US --charmap=UTF-8 en_US.UTF-8">>)>>
          [] pm = "ZYPPER" ->
               <<install(pm, <<"glibc-locale", "glibc-i18ndata">>)>>
          [] pm = "APT" ->
               <<install(pm, <<"locales">>),
                 ARG(<<"DEBIAN_FRONTEND">>, <<"noninteractive">>),
                 RUN(<<"echo 'en_US.UTF-8 UTF-8' >> /etc/locale.gen">>),
                 RUN(<<"locale-gen">>)>>
          [] OTHER -> <<>>)
    \o <<COMMENT(<<"Installing sudo and allow sudo for anyone">>),
         install(pm, <<"sudo">>),
         RUN(<<"echo 'ALL ALL = (ALL) NOPASSWD: ALL' >> /etc/sudoers">>)>>

\* image references the dialect resolution is tried on
BaseTokens ==
    {Tok_fedora, Tok_debian, Tok_ubuntu, Tok_leap, Tok_tumbleweed, Tok_archlinux,
     Tok_alpine,
     <<"o","p","e","n","s","u","s","e","-","l","e","a","p">>,
     <<"o","p","e","n","s","u","s","e","-","t","u","m","b","l","e","w","e","e","d">>,
     <<"c","e","n","t","o","s">>, <<"u","b","u","n","t","u","2">>, <<>>}

ToUpper(s) == [i \in 1..Len(s) |-> ToUpperChar(s[i])]
Capitalised(s) == [i \in 1..Len(s) |-> IF i = 1 THEN ToUpperChar(s[i]) ELSE s[i]]

BaseSuffixes == {<<>>, <<":">>, <<":","2","2">>, <<":","A",":","b">>}

\* image names with capitals outside ASCII: "ALPİNE", "DEBİAN", "Kali" with
\* the Kelvin sign, "ÉK", "OPENΣUΣE/LEAP" and "ARCHLINUXΣ"
OtherBases ==
    {<<"A","L","P","U+0130","N","E">>, <<"D","E","B","U+0130","A","N">>,
     <<"U+212A","a","l","i">>, <<"U+00C9","K">>,
     <<"O","P","E","N","U+03A3","U","U+03A3","E","/","L","E","A","P">>,
     <<"A","R","C","H","L","I","N","U","X","U+03A3">>}

BaseInputs ==
    {t \o x : t \in OtherBases \cup UNION {{b, ToUpper(b), Capitalised(b)} : b \in BaseTokens},
              x \in BaseSuffixes}

\* ------------------------------------------------------------------- paths
\* A path is the sequence of the fields its text has between the separators
\* '/', as written: "." and ".." are fields like any other, an empty field
\* stands for a doubled or a trailing separator, and the root of an absolute
\* path is the field "/".  The empty sequence is the empty path.

\* the file name of toolchain file i and the reference other files use for it
FileName(i) == ToString(i) \o ".yaml"
Ref(i) == <<ToString(i)>>
FilePath(dir, i) == dir \o <<FileName(i)>>

\* the directory of a file: its path without the last field
Parent(path) == SubSeq(path, 1, Len(path) - 1)

Last(s) == s[Len(s)]
Max(S) == CHOOSE x \in S : \A y \in S : y <= x

\* PathBuf::from(text): the fields of the text
RECURSIVE Fields(_, _, _)
Fields(text, start, k) ==
    IF k > Len(text) THEN <<SubSeq(text, start, Len(text))>>
    ELSE IF SubSeq(text, k, k) = "/"
         THEN <<SubSeq(text, start, k - 1)>> \o Fields(text, k + 1, k + 1)
    ELSE Fields(text, start, k + 1)

PathBuf_from(text) ==
    IF text = "" THEN <<>>
    ELSE IF SubSeq(text, 1, 1) # "/" THEN Fields(text, 1, 1)
    ELSE IF Len(text) = 1 THEN <<"/">>
    ELSE <<"/">> \o Fields(text, 2, 2)

\* the number of bytes of the text of a path
RECURSIVE Path_len_from(_, _)
Path_len_from(path, k) ==
    IF k > Len(path) THEN 0
    ELSE Len(path[k]) + (IF k < Len(path) /\ path[k] # "/" THEN 1 ELSE 0)
            + Path_len_from(path, k + 1)
Path_len(path) == Path_len_from(path, 1)

\* the fields Path::components yields: not the empty ones, and a "." only as
\* the first field
IsComponent(path, k) == path[k] # "" /\ (path[k] # "." \/ k = 1)

\* Path::components
Path_components(path) ==
    SelectSeq([k \in 1..Len(path) |-> IF IsComponent(path, k) THEN path[k] ELSE ""],
              LAMBDA field : field # "")

\* Path::display and to_string_lossy: the pieces of the text of a path
Path_display(path) ==
    Flatten([k \in 1..Len(path) |->
               IF k < Len(path) /\ path[k] # "/" THEN <<path[k], "/">> ELSE <<path[k]>>])

\* Path::is_absolute: the first field is the root
Path_is_absolute(path) == path # <<>> /\ path[1] = "/"

\* Path::file_name: the last component, if it is a normal one
Path_file_name(path) ==
    LET c == Path_components(path)
    IN IF c = <<>> \/ Last(c) \in {"/", ".", ".."} THEN None ELSE Some(Last(c))

\* Path::parent: the text before the last component, without the separators
\* and "." fields it ends in; none for the root and for the empty path
Path_parent(path) ==
    LET comps == {k \in 1..Len(path) : IsComponent(path, k)}
    IN IF comps = {} \/ path[Max(comps)] = "/" THEN None
       ELSE IF comps = {Max(comps)} THEN Some(<<>>)
       ELSE Some(SubSeq(path, 1, Max(comps \ {Max(comps)})))

\* Path::join and PathBuf::push: an absolute `path` replaces `base`; a
\* separator is put between the two unless `base` is empty or ends in one
Path_join(base, path) ==
    IF Path_is_absolute(path) \/ base = <<>> THEN path
    ELSE IF path = <<>> THEN IF Last(base) \in {"", "/"} THEN base ELSE Append(base, "")
    ELSE IF Last(base) = "" THEN Parent(base) \o path
    ELSE base \o path

\* normalized_path: ".yaml" is appended to the file name of the reference, the
\* result is joined to the directory of the referencing file and rebuilt from
\* its components; None stands for the panic of file_name().unwrap() on a
\* reference without a file name
normalized_path(mixin, path) ==
    LET parent_path == Path_parent(mixin.path)
        name == Path_file_name(path)
    IN IF ~IsSome(name) THEN None
       ELSE LET file_name == Unwrap(name) \o ".yaml"
                rel == IF IsSome(Path_parent(path))
                       THEN Path_join(Unwrap(Path_parent(path)), <<file_name>>)
                       ELSE <<file_name>>
            IN Some(Path_components(IF IsSome(parent_path)
                                    THEN Path_join(Unwrap(parent_path), rel)
                                    ELSE rel))

\* -------------------------------------------------------------- MixinYaml
EmptyYaml ==
    [base |-> None, install |-> <<>>, mixin |-> <<>>,
     publish |-> <<>>, volume |-> <<>>, env |-> {}]

\* ------------------------------------------------------------ file system
\* The file system is a function from paths, as a walk ends at them (no empty
\* field, no ".", ".." only at the front), to what is there: nothing, a
\* directory or a file with what it parses to.  `readable` is the permission
\* to read the file or to list the directory.  What a present entry lies in
\* is a directory without being listed, and so are the working directory (the
\* empty path), what lies above it, and the root.
NoFile ==
    [exists |-> FALSE, dir |-> FALSE, readable |-> FALSE, wellformed |-> FALSE,
     yaml |-> EmptyYaml, script |-> None]
OkFile(yaml, script) ==
    [exists |-> TRUE, dir |-> FALSE, readable |-> TRUE, wellformed |-> TRUE,
     yaml |-> yaml, script |-> script]
Directory(readable) ==
    [exists |-> TRUE, dir |-> TRUE, readable |-> readable, wellformed |-> FALSE,
     yaml |-> EmptyYaml, script |-> None]

\* the longest path text and the longest file name the system takes
\* (PATH_MAX with its terminating byte, NAME_MAX)
PathMax == 4096
NameMax == 255

\* `key` is a directory because of what lies in it or because of where it is
Implied(fsys, key) ==
    \/ \A k \in 1..Len(key) : key[k] = ".."
    \/ key = <<"/">>
    \/ \E p \in DOMAIN fsys :
          fsys[p].exists /\ Len(p) > Len(key) /\ SubSeq(p, 1, Len(key)) = key

\* what is at `key`
Entry(fsys, key) ==
    IF key \in DOMAIN fsys /\ fsys[key].exists THEN fsys[key]
    ELSE IF Implied(fsys, key) THEN Directory(TRUE)
    ELSE NoFile

\* where a walk that has come to `walked` is after the next field
Step(walked, field) ==
    IF field \in {"", "."} THEN walked
    ELSE IF field = "/" THEN <<"/">>
    ELSE IF field # ".." THEN Append(walked, field)
    ELSE IF walked = <<"/">> THEN walked
    ELSE IF walked = <<>> \/ Last(walked) = ".." THEN Append(walked, "..")
    ELSE Parent(walked)

\* the end of a walk: kind is "File" or "Dir" with the entry found, or the
\* kind of the io::Error
Walked(kind, key, file) == [kind |-> kind, key |-> key, file |-> file]

RECURSIVE Walk(_, _, _, _)
\* the walk of `path` from its k-th field on, `entry` being what is at
\* `walked`: every field, "." and ".." included, is looked up in what the
\* walk has come to, which must be a directory, and a directory holds no
\* name longer than NameMax
Walk_in(fsys, path, k, walked, entry) ==
    IF k > Len(path)
    THEN Walked(IF ~entry.exists THEN "NotFound"
                ELSE IF entry.dir THEN "Dir" ELSE "File",
                walked, entry)
    ELSE IF entry.dir
         THEN IF Len(path[k]) > NameMax THEN Walked("InvalidFilename", walked, NoFile)
              ELSE Walk(fsys, path, k + 1, Step(walked, path[k]))
    ELSE Walked(IF entry.exists THEN "NotADirectory" ELSE "NotFound", walked, NoFile)

Walk(fsys, path, k, walked) == Walk_in(fsys, path, k, walked, Entry(fsys, walked))

\* what the system finds at a path
Resolve(fsys, path) ==
    IF path = <<>> \/ path = <<"">> THEN Walked("NotFound", <<>>, NoFile)
    ELSE IF Path_len(path) >= PathMax THEN Walked("InvalidFilename", <<>>, NoFile)
    ELSE Walk(fsys, path, 1, <<>>)

\* Path::exists: the path leads to a file or to a directory
Path_exists(fsys, path) == Resolve(fsys, path).kind \in {"File", "Dir"}

\* Path::is_dir
Path_is_dir(fsys, path) == Resolve(fsys, path).kind = "Dir"

\* ------------------------------------------------------------ Mixin loader
LoadErr(kind) == [kind |-> kind, mixin |-> None, children |-> <<>>]

\* File::open(path) followed by Mixin::try_from((path, reader)), on what the
\* system found at the path.  A directory can be opened and fails to be read
Mixin_read(path, found) ==
    IF found.kind \notin {"File", "Dir"} THEN LoadErr(found.kind)
    ELSE IF ~found.file.readable THEN LoadErr("PermissionDenied")
    ELSE IF found.kind = "Dir" THEN LoadErr("IsADirectory")
    ELSE IF ~found.file.wellformed THEN LoadErr("InvalidData")
    ELSE [kind |-> "Ok",
          mixin |-> Some([path |-> path, yaml |-> found.file.yaml,
                          script |-> found.file.script, children |-> <<>>]),
          children |-> <<>>]

\* the parsed node of the file at `path`, with no children yet
Mixin_try_from(fsys, path) == Mixin_read(path, Resolve(fsys, path))

\* children.iter().any(|x| &x.path == &path): paths are equal when their
\* components are
HasPath(children, path) ==
    \E k \in 1..Len(children) : Path_components(children[k].path) = Path_components(path)

\* an open frame of load_mixins: the path of its node and the file it led to
Frame(path, key) == [path |-> path, key |-> key]

\* the node of an open frame is referenced again under its own path: the
\* frames from there on repeat without end (no node of an open frame is in
\* `children`), until the process stack is exhausted
Repeats(stack, path) ==
    \E k \in 1..Len(stack) : Path_components(stack[k].path) = Path_components(path)

\* the file of two open frames is referenced a third time, each time under
\* another path: each round of the references puts more ".." and names into
\* the path, and the frames repeat with ever longer paths: until the system
\* refuses one, when the stack of the process is deep enough for the frames
\* of that many rounds, and until the stack is exhausted otherwise
Grows(stack, key) == Cardinality({k \in 1..Len(stack) : stack[k].key = key}) >= 2

\* how a recursion with growing paths ends; `deep` stands for a stack that
\* holds its frames until the path is too long (it depends on the number of
\* files in the round, on the build and on the limit of the stack)
Grown(deep) == IF deep THEN LoadErr("InvalidFilename") ELSE LoadErr("StackOverflow")

RECURSIVE load_mixins_from(_, _, _, _, _, _)
\* the rest of the loop of load_mixins after the recursive call for the i-th
\* reference has returned `sub`
load_mixins_push(fsys, deep, parent, i, stack, mixin, sub) ==
    IF sub.kind # "Ok" THEN sub
    ELSE load_mixins_from(fsys, deep, parent, i + 1, Append(sub.children, mixin), stack)

\* the body of the loop of load_mixins for the i-th reference, `path` being
\* its normalised path, `key` where the system finds it and `read` what
\* opening and parsing it gives
load_mixins_at(fsys, deep, parent, i, children, stack, path, key, read) ==
    IF read.kind # "Ok" THEN read
    ELSE IF HasPath(children, path)
         THEN load_mixins_from(fsys, deep, parent, i + 1, children, stack)
    ELSE IF Repeats(stack, path) THEN LoadErr("StackOverflow")
    ELSE IF Grows(stack, key) THEN Grown(deep)
    ELSE load_mixins_push(fsys, deep, parent, i, stack, Unwrap(read.mixin),
                          load_mixins_from(fsys, deep, Unwrap(read.mixin), 1, children,
                                           Append(stack, Frame(path, key))))

\* the i-th reference of load_mixins, `found` being what the system finds at
\* its normalised path
load_mixins_found(fsys, deep, parent, i, children, stack, path, found) ==
    load_mixins_at(fsys, deep, parent, i, children, stack, path, found.key,
                   Mixin_read(path, found))

\* the i-th reference of load_mixins, `path` being the Option of its
\* normalised path
load_mixins_ref(fsys, deep, parent, i, children, stack, path) ==
    IF ~IsSome(path) THEN LoadErr("Panic")
    ELSE load_mixins_found(fsys, deep, parent, i, children, stack, Unwrap(path),
                           Resolve(fsys, Unwrap(path)))

\* the loop of load_mixins from its i-th reference on; `stack` holds the open
\* frames of load_mixins, the root's first
load_mixins_from(fsys, deep, parent, i, children, stack) ==
    IF i > Len(parent.yaml.mixin) THEN [kind |-> "Ok", mixin |-> None, children |-> children]
    ELSE load_mixins_ref(fsys, deep, parent, i, children, stack,
                         normalized_path(parent, parent.yaml.mixin[i]))

\* load_mixins(parent, &mut children)
load_mixins(fsys, deep, parent, children, stack) ==
    load_mixins_from(fsys, deep, parent, 1, children, stack)

\* the end of Mixin::load: the root `mixin` with the children `loaded` holds
Mixin_loaded(mixin, loaded) ==
    IF loaded.kind # "Ok" THEN loaded
    ELSE [kind |-> "Ok", mixin |-> Some([mixin EXCEPT !.children = loaded.children]),
          children |-> <<>>]

\* Mixin::load, `read` being what opening and parsing the root at `key` gives
Mixin_load_read(fsys, deep, path, key, read) ==
    IF read.kind # "Ok" THEN read
    ELSE Mixin_loaded(Unwrap(read.mixin),
                      load_mixins(fsys, deep, Unwrap(read.mixin), <<>>, <<Frame(path, key)>>))

\* Mixin::load on what the system finds at the path
Mixin_load_at(fsys, deep, path, found) ==
    Mixin_load_read(fsys, deep, path, found.key, Mixin_read(path, found))

\* Mixin::load
Mixin_load(fsys, deep, path) == Mixin_load_at(fsys, deep, path, Resolve(fsys, path))

\* convert.rs 116-117: the root's children, then the root
merge_order_root_first(value) == <<value>> \o value.children
merge_order(value) == value.children \o <<value>>

\* --------------------------------------------------------------- Dockerfile
\* width of User.uid and User.gid (u16)
U16 == 65536

\* Command::USER(User { uid: uid as u16, gid: Some(gid as u16) }), shown "uid:gid"
USER(uid, gid) ==
    [op |-> "USER", a |-> Chars(<<ToString(uid % U16)>>),
     b |-> Chars(<<ToString(gid % U16)>>)]

\* Dockerfile::new
Dockerfile_new == [entries |-> <<>>, publish |-> <<>>, volumes |-> <<>>, env |-> <<>>]

\* Dockerfile::add and Dockerfile::add_all
add(d, command) == [d EXCEPT !.entries = Append(@, command)]
add_all(d, commands) == [d EXCEPT !.entries = @ \o commands]

\* Dockerfile::add_volumes, add_publishes, add_env
add_volumes(d, args) == [d EXCEPT !.volumes = @ \o args]
add_publishes(d, args) == [d EXCEPT !.publish = @ \o args]
add_env_into_entries(d, k, v) ==
    [d EXCEPT !.env = Append(@, <<k, v>>), !.entries = Append(@, ENV(k, v))]
add_env(d, k, v) == [d EXCEPT !.env = Append(@, <<k, v>>)]

\* Display for Command: the text of one instruction
CommandLine(c) ==
    CASE c.op = "FROM" -> <<"F", "R", "O", "M", " ">> \o c.a
      [] c.op = "COMMENT" -> <<"#", " ">> \o c.a
      [] c.op = "ENV" -> <<"E", "N", "V", " ">> \o c.a \o <<"=">> \o c.b
      [] c.op = "ARG" -> <<"A", "R", "G", " ">> \o c.a \o <<"=">> \o c.b
      [] c.op = "RUN" -> <<"R", "U", "N", " ">> \o c.a
      [] c.op = "USER" -> <<"U", "S", "E", "R", " ">> \o c.a \o <<":">> \o c.b
      [] c.op = "COPY" -> <<"C", "O", "P", "Y", " ">> \o c.a \o <<" ">> \o c.b

\* docker.rs 98-103: what the writer holds after the entries from the k-th on
\* are written behind `written`: a line feed before every comment, and every
\* instruction followed by a line feed
RECURSIVE write_entries(_, _, _)
write_entries(entries, k, written) ==
    IF k > Len(entries) THEN written
    ELSE write_entries(entries, k + 1,
            written \o (IF entries[k].op = "COMMENT" THEN <<"\n">> ELSE <<>>)
                    \o CommandLine(entries[k]) \o <<"\n">>)

\* Dockerfile::write_to (and Display for Dockerfile): the text written
write_to(d) == write_entries(d.entries, 1, <<>>)

\* Dockerfile::hash: the hex SHA-256 of the text; SHA-256 is taken as
\* collision free, so the digest is known by the text it is of
hash(d) == [sha256 |-> write_to(d)]

\* Dockerfile::tag
tag(d) == [prefix |-> "mini-cross2-", hex |-> hash(d)]

\* ------------------------------------------------------------- conversion
ConvErr(kind, a, b, raw) ==
    [kind |-> kind, a |-> a, b |-> b, raw |-> raw, dockerfile |-> None]

\* convert.rs 126-134: the second file with a base is an error naming the first
\* and the second; st is [err, from_file]
check_base(st, mixin) ==
    IF IsSome(mixin.yaml.base)
    THEN IF IsSome(st.from_file)
         THEN [st EXCEPT !.err = Some(ConvErr("MultipleBases",
                                              Unwrap(st.from_file).path, mixin.path, <<>>))]
         ELSE [st EXCEPT !.from_file = Some(mixin)]
    ELSE st

\* convert.rs 136-145: the packages of one file not yet in a batch of packages
retain_all(packages, list) == list
retain(packages, list) ==
    LET fresh(package_name) ==
          ~\E k \in 1..Len(packages) :
              \E y \in 1..Len(packages[k].set) : packages[k].set[y] = package_name
    IN SelectSeq(list, fresh)

\* convert.rs 125-160: one round of the loop over the merge order
\* `volume_sink` is the list a file's volume entries end in.  Line 158 hands
\* them to add_publishes, which takes Publish entries only: the text as it
\* stands does not compile, and the least change that does (add_volumes)
\* sends them to the volume list.  Both ends are kept: "publish" as line 158
\* reads, "volumes" as it compiles
convert_round(st, mixin, volume_sink) ==
    LET based == check_base(st, mixin)
        l_packages == retain(st.packages, mixin.yaml.install)
    IN IF IsSome(based.err) THEN based
       ELSE [based EXCEPT
               !.packages = IF l_packages # <<>>
                            THEN Append(@, [mixin |-> mixin.path, set |-> l_packages])
                            ELSE @,
               !.scripts = IF IsSome(mixin.script)
                           THEN Append(@, [mixin |-> mixin.path,
                                           script |-> Unwrap(mixin.script)])
                           ELSE @,
               \* 153-159: publish entries, then volume entries; env entries
               \* are not read
               !.publish = IF volume_sink = "publish"
                           THEN (@ \o mixin.yaml.publish) \o mixin.yaml.volume
                           ELSE @ \o mixin.yaml.publish,
               !.volumes = IF volume_sink = "publish" THEN @
                           ELSE @ \o mixin.yaml.volume]

RECURSIVE convert_loop(_, _, _, _)
convert_loop(st, mixins, i, volume_sink) ==
    IF i > Len(mixins) \/ IsSome(st.err) THEN st
    ELSE convert_loop(convert_round(st, mixins[i], volume_sink), mixins, i + 1,
                      volume_sink)

\* convert.rs 208-232: the directories of the root file's directory whose
\* names do not start with a dot are copied.  `dirs` is what the filter_map
\* over fs::read_dir gave: Some of the names that passed, in the order they
\* were read, or None when the directory cannot be listed.  The result is Some
\* of the instructions, or None for the panic of read_dir(..).unwrap()
context_dirs(value, dirs) ==
    IF IsSome(Path_parent(value.path))
          /\ Len(Path_components(Unwrap(Path_parent(value.path)))) >= 2
    THEN IF ~IsSome(dirs) THEN None
         ELSE Some((IF Unwrap(dirs) # <<>> THEN <<COMMENT(<<"Adding context dirs">>)>>
                                           ELSE <<>>)
                   \o [k \in 1..Len(Unwrap(dirs)) |->
                          COPY(Path_display(Path_join(Unwrap(Path_parent(value.path)),
                                                      <<Unwrap(dirs)[k]>>)),
                               <<"/", Unwrap(dirs)[k]>>)])
    ELSE Some(<<>>)

\* convert.rs 183-189
install_batches(pm, packages) ==
    Flatten([k \in 1..Len(packages) |->
        <<COMMENT(<<"Installs from: ">> \o Path_display(packages[k].mixin)),
          install(pm, packages[k].set)>>])

\* convert.rs 192-206
configure_user(h) ==
    <<COMMENT(<<"Configure user">>),
      RUN(<<"groupadd --gid ", ToString(h.gid), " ", Unwrap(h.gname)>>),
      RUN(<<"useradd --gid ", ToString(h.gid), " --uid ", ToString(h.uid),
            " --home /home/", Unwrap(h.uname), " ", Unwrap(h.uname)>>),
      RUN(<<"mkdir -p /home/", Unwrap(h.uname)>>),
      RUN(<<"chown ", ToString(h.uid), ":", ToString(h.gid), " /home/", Unwrap(h.uname)>>),
      USER(h.uid, h.gid)>>

script_runs_reversed(scripts) ==
    Flatten([k \in 1..Len(scripts) |->
        <<COMMENT(<<"Exec script from: ">>
                     \o Path_display(scripts[Len(scripts) + 1 - k].mixin)),
          RUN(<<"<<EOR\n/bin/sh -c ">> \o scripts[Len(scripts) + 1 - k].script
                 \o <<"\nEOR">>)>>])
\* convert.rs 234-240
script_runs(scripts) ==
    Flatten([k \in 1..Len(scripts) |->
        <<COMMENT(<<"Exec script from: ">> \o Path_display(scripts[k].mixin)),
          RUN(<<"<<EOR\n/bin/sh -c ">> \o scripts[k].script \o <<"\nEOR">>)>>])

\* a panic inside Dockerfile::try_from: nothing is returned
ConvPanic == [kind |-> "Panic", a |-> <<>>, b |-> <<>>, raw |-> <<>>, dockerfile |-> None]

\* impl TryFrom<&Mixin> for Dockerfile.  h.gname and h.uname are what
\* users::get_current_groupname() and get_current_username() give: None when
\* the gid or the uid has no entry on the host, and the unwrap panics
Dockerfile_try_from(value, h, dirs, volume_sink) ==
    LET mixins == merge_order(value)
        st == convert_loop([err |-> None, from_file |-> None, packages |-> <<>>,
                            scripts |-> <<>>, publish |-> <<>>, volumes |-> <<>>],
                           mixins, 1, volume_sink)
    IN IF IsSome(st.err) THEN Unwrap(st.err)
       ELSE IF ~IsSome(st.from_file) THEN ConvErr("NoBase", <<>>, <<>>, <<>>)
       ELSE
         LET from == Unwrap(Unwrap(st.from_file).yaml.base)
             package_manager == PackageManager_from_str(from)
             pm == package_manager.pm
         IN IF package_manager.kind # "Ok"
            THEN ConvErr("UnknownBase", <<>>, <<>>, package_manager.raw)
            ELSE IF ~IsSome(h.gname) \/ ~IsSome(h.uname) THEN ConvPanic
            ELSE IF ~IsSome(context_dirs(value, dirs)) THEN ConvPanic
            ELSE [kind |-> "Ok", a |-> <<>>, b |-> <<>>, raw |-> <<>>,
                  dockerfile |-> Some(
                    [Dockerfile_new EXCEPT
                       !.publish = st.publish,
                       !.volumes = st.volumes,
                       !.entries =
                          <<FROM(from),
                            COMMENT(<<"Update outdated default dependencies">>),
                            RUN(<<upgrade(pm)>>)>>
                          \o defaults(pm)
                          \o install_batches(pm, st.packages)
                          \o configure_user(h)
                          \o Unwrap(context_dirs(value, dirs))
                          \o script_runs(st.scripts)
                          \o <<COMMENT(<<"Exec bash as entrypoint">>),
                               RUN(<<"/usr/bin/env bash">>)>>])]

\* ------------------------------------------------------- runtime parameters
\* s.split_once('='): the texts before and after the first '=' of s, if any
split_once(s) ==
    IF \E i \in 1..Len(s) : s[i] = "="
    THEN LET i == CHOOSE i \in 1..Len(s) : s[i] = "=" /\ \A j \in 1..(i - 1) : s[j] # "="
         IN Some(<<SubSeq(s, 1, i - 1), SubSeq(s, i + 1, Len(s))>>)
    ELSE None

RECURSIVE append_env_skipping(_, _, _)
append_env_skipping(d, env, i) ==
    IF i > Len(env) THEN [ok |-> TRUE, dockerfile |-> d]
    ELSE IF IsSome(split_once(env[i]))
         THEN append_env_skipping(add_env(d, Unwrap(split_once(env[i]))[1],
                                             Unwrap(split_once(env[i]))[2]), env, i + 1)
         ELSE append_env_skipping(d, env, i + 1)

RECURSIVE append_env(_, _, _)
\* main.rs 56-64: the env entries from the i-th on; stops at the first without '='
append_env(d, env, i) ==
    IF i > Len(env) THEN [ok |-> TRUE, dockerfile |-> d]
    ELSE IF IsSome(split_once(env[i]))
         THEN append_env(add_env(d, Unwrap(split_once(env[i]))[1],
                                    Unwrap(split_once(env[i]))[2]), env, i + 1)
         ELSE [ok |-> FALSE, dockerfile |-> d]

\* Cli::append_docker
Cli_append_docker(c, d) ==
    append_env(add_volumes(add_publishes(d, c.publish), c.volumes), c.env, 1)

RECURSIVE add_envs(_, _)
add_envs(d, pairs) ==
    IF pairs = <<>> THEN d
    ELSE add_envs(add_env(d, Head(pairs)[1], Head(pairs)[2]), Tail(pairs))

\* UserConfig::append_docker; `pairs` is the order the env map is iterated in
UserConfig_append_docker(u, d, pairs) ==
    add_envs(add_volumes(add_publishes(d, u.publish), u.volume), pairs)

\* the orders a set can be listed in
Listings(S) ==
    {l \in [1..Cardinality(S) -> S] : \A i, j \in 1..Cardinality(S) : l[i] = l[j] => i = j}

\* where the volume entries of a file can end (convert.rs 158)
VolumeSinks == {"publish", "volumes"}

\* the names of the entries of the directory at `key`
Names(fsys, key) ==
    {p[Len(key) + 1] : p \in {q \in DOMAIN fsys : /\ fsys[q].exists /\ Len(q) > Len(key)
                                                  /\ SubSeq(q, 1, Len(key)) = key}}
       \ {"/", ".."}

\* what the filter_map of convert.rs 212-222 keeps of the entries of
\* `parent_dir`: x.path().is_dir() and a file name that does not start with "."
context_dir_names(fsys, parent_dir, names) ==
    {n \in names : /\ Path_is_dir(fsys, Path_join(parent_dir, <<n>>))
                   /\ SubSeq(n, 1, 1) # "."}

\* fs::read_dir(parent_dir) on what the system finds there, filtered: the
\* names kept, in any order the directory can be read in; None when it cannot
\* be listed
read_dir(fsys, parent_dir, found) ==
    IF found.kind = "Dir" /\ found.file.readable
    THEN {Some(l) : l \in Listings(context_dir_names(fsys, parent_dir,
                                                     Names(fsys, found.key)))}
    ELSE {None}

\* what convert.rs 208-222 can read for the tree `value`
context_listings(fsys, value) ==
    IF IsSome(Path_parent(value.path))
          /\ Len(Path_components(Unwrap(Path_parent(value.path)))) >= 2
    THEN read_dir(fsys, Unwrap(Path_parent(value.path)),
                  Resolve(fsys, Unwrap(Path_parent(value.path))))
    ELSE {Some(<<>>)}

\* ------------------------------------------------------------------- state
VARIABLES
    pmInput,      \* the text handed to PackageManager::from_str
    pmResult,     \* Option of its result
    fs,           \* the file system: the files and directories, by path
    aliases,      \* the two alias files, in the order they are tried
    rootPath,     \* the path main found for the toolchain, <<>> before
    host,         \* uid, gid, Option user name and Option group name of the
                  \* invoking user
    stdout,       \* "open" when standard output takes what is written to it,
                  \* "full" when it cannot be written
    stderr,       \* the same for standard error
    cli,          \* the parsed command line
    userCfg,      \* what UserConfig::load yields
    images,       \* the tags in the engine's image store
    runs,         \* the number of the current invocation
    prevTag,      \* Option: the tag the previous invocation derived
    pc,           \* position of main
    config,       \* Option<Mixin>: what Mixin::load returned
    loadErr,      \* the error kind Mixin::load returned, "" for none
    convErr,      \* Option: the ConversionError of Dockerfile::try_from
    dockerfile,   \* Option<Dockerfile>
    calls,        \* the engine operations this invocation has invoked, in order
    existsResult, \* what exists() returned: "", "true", "false" or "err"
    buildResult,  \* "", "ok" or "failed"
    runResult,    \* "", "ok", "nonzero" or "err"
    failure,      \* the step that ended the invocation early, "" for none
    exit,         \* how main ended: "", "ok", "err", "panic" or "abort"
    out,          \* Option: the text written to standard output by --dry-run
    codecIn,      \* the value or text a Display / FromStr pair is applied to
    codecMid,     \* Option: what the first of the two conversions returned
    codecOut      \* Option: what the second conversion returned

inputVars == <<fs, aliases, host, stdout, stderr, userCfg>>
engineVars == <<calls, existsResult, buildResult, runResult>>
vars == <<pmInput, pmResult, fs, aliases, rootPath, host, stdout, stderr, cli,
          userCfg, images,
          runs, prevTag, pc, config, loadErr, convErr, dockerfile, calls,
          existsResult, buildResult, runResult, failure, exit, out,
          codecIn, codecMid, codecOut>>
codecVars == <<codecIn, codecMid, codecOut>>
mainVars == <<fs, aliases, rootPath, host, stdout, stderr, cli, userCfg, images,
              runs, prevTag, pc, config, loadErr, convErr, dockerfile, calls,
              existsResult, buildResult, runResult, failure, exit, out>>

\* ---------------------------------------------------------- input spaces
\* sequences over S of length at most n
SeqsUpTo(S, n) == UNION {[1..k -> S] : k \in 0..n}

\* `mixin:` lists over the files S: up to MaxRefs different files, or one
\* file twice
RefLists(S) ==
    {r \in SeqsUpTo(S, MaxRefs) : NoDuplicates(r) \/ (Len(r) = 2 /\ r[1] = r[2])}

\* reference graphs: each file lists files of a higher number (every acyclic
\* graph is one of these up to renaming the files)
RECURSIVE ForwardGraphsFrom(_)
ForwardGraphsFrom(i) ==
    IF i > NumNodes THEN {<<>>}
    ELSE {<<r>> \o g : r \in RefLists((i + 1)..NumNodes),
                       g \in ForwardGraphsFrom(i + 1)}
ForwardGraphs == ForwardGraphsFrom(1)

\* the directories `names` in the directory dir
DirsOf(dir, names) == [p \in {Append(dir, n) : n \in names} |-> Directory(TRUE)]

\* the files of a graph in directory dir, file i with yaml fields y[i], beside
\* a directory to copy and a hidden one
FilesOf(dir, g, y, scr) ==
    [p \in {FilePath(dir, i) : i \in Nodes} |->
        LET i == CHOOSE i \in Nodes : FilePath(dir, i) = p
        IN OkFile([y[i] EXCEPT !.mixin = [k \in 1..Len(g[i]) |-> Ref(g[i][k])]], scr[i])]
       @@ DirsOf(dir, {"src", ".cache"})

\* the files of a file system without its directories, and with others
Files(fsys) == [p \in {q \in DOMAIN fsys : ~fsys[q].dir} |-> fsys[p]]

ToolDir == <<".mc", "dev">>
DefaultHost == [uid |-> 1000, gid |-> 100, uname |-> Some("dev"), gname |-> Some("users")]

\* uid and gid of the invoking user are 32-bit on the host: ids inside and
\* outside the 16-bit range
HostChoices ==
    {[uid |-> u, gid |-> g, uname |-> Some("dev"), gname |-> Some("users")] :
        u \in {0, 1000, U16 - 1, U16, U16 + 1000}, g \in {100, U16 + 100}}

\* hosts on which the uid or the gid of the invoking user has no entry
NamelessHosts ==
    {[DefaultHost EXCEPT !.uname = un, !.gname = gn] :
        un \in {None, Some("dev")}, gn \in {None, Some("users")}} \ {DefaultHost}

Publish(ip, host_port, machine_port) ==
    [host_ip |-> ip, host_port |-> host_port, machine_port |-> machine_port]
Volume(host_path, machine_path, opts) ==
    [host_path |-> host_path, machine_path |-> machine_path, opts |-> opts]

NoParams == [publish |-> <<>>, volumes |-> <<>>, env |-> <<>>]
\* the command line `-f .mc/dev/1.yaml` with the given flags and parameters
Cli(dry_run, force, params) ==
    [dry_run |-> dry_run, force |-> force, file |-> Some(FilePath(ToolDir, 1)),
     machine |-> None, publish |-> params.publish,
     volumes |-> params.volumes, env |-> params.env]
DefaultCli == Cli(FALSE, FALSE, NoParams)
NoUserConfig == [ok |-> TRUE, publish |-> <<>>, volume |-> <<>>, env |-> {}]

NoCodec == [origin |-> "none", type |-> "none", value |-> None, text |-> <<>>]
CodecIdle == codecIn = NoCodec /\ codecMid = None /\ codecOut = None
PmIdle == pmInput = <<>> /\ pmResult = None /\ CodecIdle

\* an alias file that holds the map `map` from machine names to paths
AliasFile(map) == [kind |-> "ok", map |-> map]

\* no alias file in the working directory
NoAliasFile == [kind |-> "absent", map |-> <<>>]
NoAliases == <<NoAliasFile, NoAliasFile>>

\* nothing of an invocation has happened
Cleared ==
    /\ config = None /\ loadErr = "" /\ convErr = None
    /\ dockerfile = None /\ calls = <<>> /\ existsResult = "" /\ buildResult = ""
    /\ runResult = "" /\ failure = "" /\ exit = "" /\ out = None

\* the state an invocation starts in
Started == pc = "lookup" /\ rootPath = <<>> /\ Cleared

\* the state of an invocation with `-f <rootPath>` that is about to load
Fresh == pc = "load" /\ Cleared

MainIdle ==
    /\ fs = <<>> /\ aliases = NoAliases /\ rootPath = <<>>
    /\ host = DefaultHost /\ stdout = "open" /\ stderr = "open"
    /\ cli = DefaultCli /\ userCfg = NoUserConfig /\ images = {} /\ runs = 1
    /\ prevTag = None /\ pc = "idle" /\ config = None /\ loadErr = ""
    /\ convErr = None /\ dockerfile = None /\ calls = <<>> /\ existsResult = ""
    /\ buildResult = "" /\ runResult = "" /\ failure = "" /\ exit = "" /\ out = None

PmInit == pmInput \in BaseInputs /\ pmResult = None /\ MainIdle /\ CodecIdle

\* one call of PackageManager::from_str
FromStr ==
    /\ pmResult = None
    /\ pmInput \in BaseInputs
    /\ pc = "idle"
    /\ pmResult' = Some(PackageManager_from_str(pmInput))
    /\ UNCHANGED <<pmInput, mainVars, codecVars>>

SpecPM == PmInit /\ [][FromStr]_vars

\* --------------------------------------------------------------------- main
\* println! and eprintln!: the line is written, or the macro panics on a
\* stream that cannot be written.  The value is how main goes on: "" for the
\* next statement
println(sink) == IF sink = "open" THEN "" ELSE "panic"

\* eprintln!(..) followed by `return Ok(())`
eprintln_return(sink) == IF sink = "open" THEN "ok" ELSE "panic"

\* Path::file_stem on a file name: the part before the last dot, the whole
\* name when it has no dot or only a leading one
file_stem(name) ==
    LET dots == {i \in 1..Len(name) : SubSeq(name, i, i) = "."}
    IN IF dots = {} \/ Max(dots) = 1 THEN name ELSE SubSeq(name, 1, Max(dots) - 1)

\* PathBuf::set_extension: the text is cut behind the stem of the file name
\* and a dot and `ext` are put there; a path without file name stays
Path_set_extension(path, ext) ==
    IF ~IsSome(Path_file_name(path)) THEN path
    ELSE LET at == Max({k \in 1..Len(path) : IsComponent(path, k)})
         IN SubSeq(path, 1, at - 1) \o <<file_stem(path[at]) \o "." \o ext>>

\* config.rs 184-187: the alias files
AliasPaths == << <<".mc2aliases.yaml">>, <<".mc", ".mc2aliases.yaml">> >>

\* config.rs 197-202: the target joined to the directory of the alias file,
\* with the extension "yaml"
alias_target(alias_path, target) ==
    Path_set_extension(IF IsSome(Path_parent(alias_path))
                       THEN Path_join(Unwrap(Path_parent(alias_path)), target)
                       ELSE target,
                       "yaml")

RECURSIVE get_alias_from(_, _, _)
\* the find_map of get_alias_from_config from the i-th alias file on: a file
\* that is absent or no regular file is passed over, one that cannot be
\* opened or is no map of YAML panics (the two unwraps), one without the
\* machine is passed over
get_alias_from(files, machine, i) ==
    IF i > Len(files) THEN [kind |-> "Ok", path |-> None]
    ELSE IF files[i].kind = "absent" THEN get_alias_from(files, machine, i + 1)
    ELSE IF files[i].kind # "ok" THEN [kind |-> "Panic", path |-> None]
    ELSE IF machine \in DOMAIN files[i].map
         THEN [kind |-> "Ok",
               path |-> Some(alias_target(AliasPaths[i], files[i].map[machine]))]
    ELSE get_alias_from(files, machine, i + 1)

get_alias_from_config(files, machine) == get_alias_from(files, machine, 1)

\* Mixin::lookup_paths_named
lookup_paths_named(name) ==
    LET machine_file_name == PathBuf_from(name \o ".yaml")
    IN <<machine_file_name,
         Path_join(<<".mc">>, machine_file_name),
         Path_join(Path_join(<<".mc">>, PathBuf_from(name)), machine_file_name)>>

\* Mixin::lookup_path_unnamed
lookup_path_unnamed == << <<"mc.yaml">>, <<".mc", "mc.yaml">> >>

\* main.rs 72-107: the path of the toolchain: the one given with -f, or the
\* first candidate that exists; kind is "Ok", "Panic" (of the alias lookup)
\* or "NotFound"
toolchain_path(c, files, fsys) ==
    IF IsSome(c.file) THEN [kind |-> "Ok", path |-> Unwrap(c.file)]
    ELSE LET alias == IF IsSome(c.machine)
                      THEN get_alias_from_config(files, Unwrap(c.machine))
                      ELSE [kind |-> "Ok", path |-> None]
             paths == IF IsSome(c.machine)
                      THEN alias.path \o lookup_paths_named(Unwrap(c.machine))
                      ELSE lookup_path_unnamed
             hits == {k \in 1..Len(paths) : Path_exists(fsys, paths[k])}
         IN IF alias.kind = "Panic" THEN [kind |-> "Panic", path |-> <<>>]
            ELSE IF hits = {} THEN [kind |-> "NotFound", path |-> <<>>]
            ELSE [kind |-> "Ok",
                  path |-> paths[CHOOSE k \in hits : \A j \in hits : k <= j]]

\* main.rs 72-107: the toolchain is looked up; when no candidate exists the
\* candidates are printed to standard error and main returns Ok
Lookup ==
    /\ pc = "lookup"
    /\ LET r == toolchain_path(cli, aliases, fs)
       IN /\ rootPath' = r.path
          /\ pc' = IF r.kind = "Ok" THEN "load" ELSE "done"
          /\ failure' = IF r.kind = "Ok" THEN "" ELSE "lookup"
          /\ exit' = CASE r.kind = "Ok" -> ""
                        [] r.kind = "Panic" -> "panic"
                        [] OTHER -> eprintln_return(stderr)
    /\ UNCHANGED <<pmInput, pmResult, codecVars, inputVars, cli, images, runs, prevTag, config,
                   loadErr, convErr, dockerfile, engineVars, out>>

\* main.rs 110-120: Mixin::load(&path); an error is printed to standard error
\* and main returns Ok
Load ==
    /\ pc = "load"
    /\ \E deep \in BOOLEAN :
       LET r == Mixin_load(fs, deep, rootPath)
       IN /\ config' = r.mixin
          /\ loadErr' = IF r.kind = "Ok" THEN "" ELSE r.kind
          /\ pc' = IF r.kind = "Ok" THEN "convert" ELSE "done"
          /\ failure' = IF r.kind = "Ok" THEN "" ELSE "load"
          /\ exit' = CASE r.kind = "Ok" -> ""
                        [] r.kind = "StackOverflow" -> "abort"
                        [] r.kind = "Panic" -> "panic"
                        [] OTHER -> eprintln_return(stderr)
    /\ UNCHANGED <<pmInput, pmResult, codecVars, inputVars, rootPath, cli, images, runs, prevTag, convErr,
                   dockerfile, engineVars, out>>

\* main.rs 122: Dockerfile::try_from(&config).expect(..): an error panics, and
\* so does an unwrap inside try_from
Convert ==
    /\ pc = "convert"
    /\ \E dirs \in context_listings(fs, Unwrap(config)), volume_sink \in VolumeSinks :
         LET r == Dockerfile_try_from(Unwrap(config), host, dirs, volume_sink)
         IN /\ dockerfile' = r.dockerfile
            /\ convErr' = IF r.kind \in {"Ok", "Panic"} THEN None ELSE Some(r)
            /\ pc' = IF r.kind = "Ok" THEN "user_config" ELSE "done"
            /\ failure' = IF r.kind = "Ok" THEN "" ELSE "convert"
            /\ exit' = IF r.kind = "Ok" THEN "" ELSE "panic"
    /\ UNCHANGED <<pmInput, pmResult, codecVars, inputVars, rootPath, cli, images, runs, prevTag, config,
                   loadErr, engineVars, out>>

\* main.rs 123: UserConfig::load()?.append_docker(&mut dockerfile)
AppendUserConfig ==
    /\ pc = "user_config"
    /\ IF userCfg.ok
       THEN /\ \E pairs \in Listings(userCfg.env) :
                 dockerfile' = Some(UserConfig_append_docker(userCfg, Unwrap(dockerfile), pairs))
            /\ pc' = "cli"
            /\ UNCHANGED <<failure, exit>>
       ELSE /\ pc' = "done" /\ failure' = "user_config" /\ exit' = "err"
            /\ UNCHANGED dockerfile
    /\ UNCHANGED <<pmInput, pmResult, codecVars, inputVars, rootPath, cli, images, runs, prevTag, config,
                   loadErr, convErr, engineVars, out>>

\* main.rs 124-126: cli.append_docker(&mut dockerfile); on an invalid env
\* entry it prints to standard error (line 61) and main returns Ok
AppendCli ==
    /\ pc = "cli"
    /\ LET r == Cli_append_docker(cli, Unwrap(dockerfile))
       IN /\ dockerfile' = Some(r.dockerfile)
          /\ pc' = IF r.ok THEN "policy" ELSE "done"
          /\ failure' = IF r.ok THEN "" ELSE "cli"
          /\ exit' = IF r.ok THEN "" ELSE eprintln_return(stderr)
    /\ UNCHANGED <<pmInput, pmResult, codecVars, inputVars, rootPath, cli, images, runs, prevTag, config,
                   loadErr, convErr, engineVars, out>>

\* Dockerfile::exists as called at main.rs 132: `docker images -q <tag>`. The
\* engine answers ("up"), runs but fails or prints nothing ("down"), or cannot
\* be spawned ("nospawn", an io error that ends main)
exists(d, imgs, engine) ==
    CASE engine = "up" -> IF tag(d) \in imgs THEN "true" ELSE "false"
      [] engine = "down" -> "false"
      [] engine = "nospawn" -> "err"

\* main.rs 129: dockerfile.write_to(&mut BufWriter::new(stdout()))?.  On a
\* standard output that takes the bytes the text is written.  On one that
\* cannot be written (a full device, a closed pipe) nothing arrives: a text
\* that overflows the buffer of the BufWriter makes write_to return the error
\* and main end with it, a shorter one is lost when the BufWriter is dropped
\* and main returns Ok.  `overflow` says which; the length in bytes is not
\* part of the Dockerfile as it is held here
write_stdout(d, sink, overflow) ==
    IF sink = "open" THEN [out |-> Some(write_to(d)), exit |-> "ok", failure |-> ""]
    ELSE IF overflow THEN [out |-> None, exit |-> "err", failure |-> "stdout"]
    ELSE [out |-> None, exit |-> "ok", failure |-> ""]

\* main.rs 128-130: --dry-run writes the text to standard output and returns
DryRun ==
    /\ pc = "policy" /\ cli.dry_run
    /\ \E overflow \in BOOLEAN :
         LET w == write_stdout(Unwrap(dockerfile), stdout, overflow)
         IN out' = w.out /\ exit' = w.exit /\ failure' = w.failure
    /\ pc' = "done"
    /\ UNCHANGED <<pmInput, pmResult, codecVars, inputVars, rootPath, cli, images, runs, prevTag, config,
                   loadErr, convErr, dockerfile, existsResult, buildResult, runResult, calls>>

\* main.rs 132: dockerfile.exists()? && !cli.force
skip_build_always(found, force) == found = "true"
skip_build(found, force) == found = "true" /\ ~force

\* main.rs 133 and 136: a line is printed to standard output when the build
\* is skipped and when it is forced
announces(found, force) == skip_build(found, force) \/ force

\* main.rs 132-137: the image is looked for; the branch taken prints its line
\* before anything is built or run
Exists ==
    /\ pc = "policy" /\ ~cli.dry_run
    /\ \E engine \in {"up", "down", "nospawn"} :
         LET found == exists(Unwrap(dockerfile), images, engine)
         IN /\ existsResult' = found
            /\ calls' = Append(calls, "exists")
            /\ IF found = "err"
               THEN pc' = "done" /\ failure' = "exists" /\ exit' = "err"
               ELSE IF announces(found, cli.force) /\ println(stdout) = "panic"
               THEN pc' = "done" /\ failure' = "println" /\ exit' = "panic"
               ELSE /\ pc' = IF skip_build(found, cli.force) THEN "run" ELSE "build"
                    /\ UNCHANGED <<failure, exit>>
    /\ UNCHANGED <<pmInput, pmResult, codecVars, inputVars, rootPath, cli, images, runs, prevTag, config,
                   loadErr, convErr, dockerfile, buildResult, runResult, out>>

\* Dockerfile::build as called at main.rs 138: a build that completes with
\* success stores the image under the tag; any other end is an error
Build ==
    /\ pc = "build"
    /\ calls' = Append(calls, "build")
    /\ \/ /\ buildResult' = "ok"
          /\ images' = images \cup {tag(Unwrap(dockerfile))}
          /\ pc' = "run"
          /\ UNCHANGED <<failure, exit>>
       \/ /\ buildResult' = "failed"
          /\ pc' = "done" /\ failure' = "build" /\ exit' = "err"
          /\ UNCHANGED images
    /\ UNCHANGED <<pmInput, pmResult, codecVars, inputVars, rootPath, cli, runs, prevTag, config,
                   loadErr, convErr, dockerfile, existsResult, runResult, out>>

\* Dockerfile::run 184-201 as called at main.rs 140: `.status()?` fails only
\* when docker cannot be spawned; the exit status is dropped
run_status(engine) == IF engine = "nospawn" THEN "err" ELSE "ok"

Run ==
    /\ pc = "run"
    /\ calls' = Append(calls, "run")
    /\ \E engine \in {"ok", "nonzero", "nospawn"} :
         /\ runResult' = IF engine = "nospawn" THEN "err" ELSE engine
         /\ exit' = run_status(engine)
         /\ failure' = IF run_status(engine) = "err" THEN "run" ELSE ""
    /\ pc' = "done"
    /\ UNCHANGED <<pmInput, pmResult, codecVars, inputVars, rootPath, cli, images, runs, prevTag, config,
                   loadErr, convErr, dockerfile, existsResult, buildResult, out>>

\* parameters of a command line: a publish, a volume and an env entry
SomeParams ==
    [publish |-> <<Publish(None, 8080, 80)>>,
     volumes |-> <<Volume(<<"data">>, <<"mnt">>, <<"ro">>)>>,
     env |-> <<<<"K", "=", "V">>>>]

\* two env entries, the second without '='
BadEnvParams ==
    [publish |-> <<>>, volumes |-> <<>>,
     env |-> <<<<"K", "=", "V", "=", "W">>, <<"B", "A", "D">>>>]

\* command lines with -f .mc/dev/1.yaml
CliChoices ==
    {Cli(dry, force, params) :
        dry \in BOOLEAN, force \in BOOLEAN,
        params \in {NoParams, SomeParams, BadEnvParams}}

\* command lines a further invocation comes with: any flags, with and
\* without parameters
RestartClis ==
    {Cli(dry, force, params) :
        dry \in BOOLEAN, force \in BOOLEAN, params \in {NoParams, SomeParams}}

\* command lines without -f: no machine, the machine "dev", or the machine
\* "a/b"
LookupClis ==
    {[DefaultCli EXCEPT !.file = None, !.machine = m] :
        m \in {None, Some("dev"), Some("a/b")}}

\* command lines that name the root with a "." on the way
DottedClis ==
    {[Cli(dry, FALSE, NoParams) EXCEPT !.file = Some(<<".mc", ".", "dev", "1.yaml">>)] :
        dry \in BOOLEAN}

\* main.rs 69-70: the program is invoked again on the same files, with
\* another command line; only the engine's image store survives
Restart ==
    /\ pc = "done" /\ runs < MaxRuns
    /\ runs' = runs + 1
    /\ cli' \in RestartClis
    /\ prevTag' = IF IsSome(dockerfile) THEN Some(tag(Unwrap(dockerfile))) ELSE prevTag
    /\ pc' = "lookup" /\ rootPath' = <<>>
    /\ config' = None /\ loadErr' = "" /\ convErr' = None
    /\ dockerfile' = None /\ calls' = <<>> /\ existsResult' = "" /\ buildResult' = ""
    /\ runResult' = "" /\ failure' = "" /\ exit' = "" /\ out' = None
    /\ UNCHANGED <<pmInput, pmResult, codecVars, inputVars, images>>

\* --------------------------------------------------------- specifications
\* the files `files` with every reference of the file at `path` written "./i"
DotReferences(files, path) ==
    [files EXCEPT ![path].yaml.mixin = [k \in 1..Len(@) |-> <<".">> \o @[k]]]

\* two shapes of reference graph: the chain 1 -> 2 -> ... and the diamond
\* 1 -> [2, 3], 2 -> [4], 3 -> [4]
Chain == [i \in Nodes |-> IF i < NumNodes THEN <<i + 1>> ELSE <<>>]
Diamond ==
    [i \in Nodes |-> CASE i = 1 -> <<2, 3>> [] i \in {2, 3} -> <<4>> [] OTHER -> <<>>]
ConvGraphs == {Chain, Diamond}

\* the ways file 1 of .mc/dev is named with -f
RootChoices ==
    {FilePath(ToolDir, 1), <<".mc", ".", "dev", "1.yaml">>,
     <<".mc", "dev", "src", "..", "1.yaml">>}

\* the ways a file of .mc/dev references file i of .mc/dev
RefStyles(i) ==
    {Ref(i), <<".">> \o Ref(i), <<"..", "dev">> \o Ref(i), <<"src", "..">> \o Ref(i)}

\* every acyclic graph, the root's references written "i" or "./i"
LoadInitGraphs ==
    /\ \E g \in ForwardGraphs, dotted \in BOOLEAN :
          LET files == FilesOf(ToolDir, g, [i \in Nodes |-> EmptyYaml],
                               [i \in Nodes |-> None])
          IN fs = IF dotted THEN DotReferences(files, FilePath(ToolDir, 1)) ELSE files
    /\ rootPath = FilePath(ToolDir, 1)

\* the diamond and the chain below a root named in any way, whose list is
\* file 2 and then file 2 or 3, each written in any way
LoadInitPaths ==
    /\ \E g \in ConvGraphs, a \in RefStyles(2), b \in RefStyles(2) \cup RefStyles(3) :
          fs = [FilesOf(ToolDir, g, [i \in Nodes |-> EmptyYaml], [i \in Nodes |-> None])
                   EXCEPT ![FilePath(ToolDir, 1)].yaml.mixin = <<a, b>>]
    /\ rootPath \in RootChoices

LoadInit ==
    /\ PmIdle
    /\ LoadInitGraphs \/ LoadInitPaths
    /\ aliases = NoAliases
    /\ host = DefaultHost /\ stdout = "open" /\ stderr = "open"
    /\ cli = [DefaultCli EXCEPT !.file = Some(rootPath)]
    /\ userCfg = NoUserConfig /\ images = {} /\ runs = 1 /\ prevTag = None
    /\ Fresh

SpecLoad == LoadInit /\ [][Load]_vars

\* reference graphs that may hold cycles: the root lists up to MaxRefs files
\* (itself included), every other file lists at most one file, any file
IncreasingLists(S) ==
    {r \in SeqsUpTo(S, MaxRefs) : \A k \in 1..(Len(r) - 1) : r[k] < r[k + 1]}
CycleGraphs ==
    {<<r>> \o [k \in 1..(NumNodes - 1) |-> rest[k + 1]] :
        r \in IncreasingLists(Nodes),
        rest \in [2..NumNodes -> SeqsUpTo(Nodes, 1)]}

\* the root references file 2
PairGraph == [i \in Nodes |-> IF i = 1 THEN <<2>> ELSE <<>>]

\* cycles whose references go through "..": the root references itself, or
\* file 2 which references the root
GrowingCycles ==
    {[FilesOf(ToolDir, PairGraph, [i \in Nodes |-> EmptyYaml], [i \in Nodes |-> None])
         EXCEPT ![FilePath(ToolDir, 1)].yaml.mixin = <<root>>,
                ![FilePath(ToolDir, 2)].yaml.mixin = <<back>>] :
        root \in {<<"..", "dev", "1">>, Ref(2)},
        back \in {<<"..", "dev", "1">>, <<"src", "..", "1">>}}

CycleInit ==
    /\ PmIdle
    /\ \/ \E g \in CycleGraphs :
             fs = FilesOf(ToolDir, g, [i \in Nodes |-> EmptyYaml], [i \in Nodes |-> None])
       \/ fs \in GrowingCycles
    /\ aliases = NoAliases /\ rootPath = FilePath(ToolDir, 1)
    /\ host = DefaultHost /\ stdout = "open" /\ stderr = "open"
    /\ cli = [DefaultCli EXCEPT !.file = Some(rootPath)]
    /\ userCfg = NoUserConfig /\ images = {} /\ runs = 1 /\ prevTag = None
    /\ Fresh

SpecCycle == CycleInit /\ [][Load]_vars


Base_ubuntu == Tok_ubuntu \o <<":", "2", "2">>
Base_Fedora == Capitalised(Tok_fedora)
Base_centos == <<"c","e","n","t","o","s",":","7">>
BaseChoices == {None, Some(Base_ubuntu), Some(Base_Fedora), Some(Base_centos)}

Packages == {"git", "curl"}
InstallLists == SeqsUpTo(Packages, MaxInstall)

\* every file may declare a base
ConvertInitBases ==
    /\ \E g \in ConvGraphs, bases \in [Nodes -> BaseChoices] :
          fs = FilesOf(ToolDir, g,
                       [i \in Nodes |-> [EmptyYaml EXCEPT !.base = bases[i]]],
                       [i \in Nodes |-> IF i <= 2 THEN Some(Chars(<<"echo ", ToString(i)>>))
                                        ELSE None])
    /\ rootPath = FilePath(ToolDir, 1) /\ host = DefaultHost

\* the root declares the base and NumInstallers files list packages: the
\* first ones of the chain, any lists, below an ubuntu base, or the last ones
\* of the diamond, lists that name no package twice, below a fedora base
ConvertInitInstalls ==
    /\ \E g \in ConvGraphs, lists \in [1..NumInstallers -> InstallLists], late \in BOOLEAN :
          /\ late <=> g = Diamond
          /\ late => \A k \in 1..NumInstallers : NoDuplicates(lists[k])
          /\ fs = FilesOf(ToolDir, g,
                          [i \in Nodes |->
                             LET k == IF late THEN i - (NumNodes - NumInstallers) ELSE i
                             IN [EmptyYaml EXCEPT
                                   !.base = IF i # 1 THEN None
                                            ELSE IF late THEN Some(Base_Fedora)
                                            ELSE Some(Base_ubuntu),
                                   !.install = IF k \in 1..NumInstallers THEN lists[k]
                                               ELSE <<>>]],
                          [i \in Nodes |-> None])
    /\ rootPath = FilePath(ToolDir, 1) /\ host = DefaultHost

\* what can lie beside the toolchain files: a directory to copy and a hidden
\* one, nothing, two directories to copy, and a directory that cannot be
\* listed
ConvDirs ==
    {DirsOf(ToolDir, {"src", ".cache"}), DirsOf(ToolDir, {}),
     DirsOf(ToolDir, {"src", "lib"}),
     (ToolDir :> Directory(FALSE)) @@ DirsOf(ToolDir, {"src"})}

\* the diamond with a base, scripts and packages, named in any way, run by
\* any user, with and without names for the user and the group, beside any
\* directories
ConvertInitHosts ==
    /\ \E d \in ConvDirs, base \in {Base_ubuntu, Base_Fedora} :
          fs = Files(FilesOf(ToolDir, Diamond,
                             [i \in Nodes |->
                                [EmptyYaml EXCEPT
                                   !.base = IF i = 3 THEN Some(base) ELSE None,
                                   !.install = IF i \in {1, 4} THEN <<"git">> ELSE <<>>]],
                             [i \in Nodes |-> IF i \in {1, 2}
                                              THEN Some(Chars(<<"echo ", ToString(i)>>))
                                              ELSE None]))
                  @@ d
    /\ rootPath \in RootChoices
    /\ host \in HostChoices \cup NamelessHosts

ConvertInit ==
    /\ PmIdle
    /\ ConvertInitBases \/ ConvertInitInstalls \/ ConvertInitHosts
    /\ aliases = NoAliases
    /\ stdout = "open" /\ stderr = "open"
    /\ cli = [DefaultCli EXCEPT !.file = Some(rootPath)]
    /\ userCfg = NoUserConfig /\ images = {} /\ runs = 1 /\ prevTag = None
    /\ Fresh

SpecConvert == ConvertInit /\ [][Load \/ Convert]_vars


\* ---- whole invocations
Main ==
    \/ Lookup \/ Load \/ Convert \/ AppendUserConfig \/ AppendCli
    \/ DryRun \/ Exists \/ Build \/ Run \/ Restart

MalformedFile == [OkFile(EmptyYaml, None) EXCEPT !.wellformed = FALSE]

\* the root references file 2, which declares runtime parameters
PairFiles(base1, base2) ==
    FilesOf(ToolDir, PairGraph,
            [i \in Nodes |->
               CASE i = 1 -> [EmptyYaml EXCEPT !.base = base1, !.install = <<"git">>]
                 [] i = 2 -> [EmptyYaml EXCEPT
                                !.base = base2,
                                !.publish = <<Publish(Some("127.0.0.1"), 8080, 80)>>,
                                !.volume = <<Volume(<<"cache">>, <<"var", "cache">>, <<>>)>>,
                                !.env = {<<Chars(<<"RUST_LOG">>), Chars(<<"debug">>)>>}]
                 [] OTHER -> EmptyYaml],
            [i \in Nodes |-> IF i = 1 THEN Some(Chars(<<"echo hello">>)) ELSE None])

\* file systems main is run on: a convertible pair, the three semantic
\* errors, and a missing or malformed root or referenced file
MainFileSystems ==
    {PairFiles(Some(Base_ubuntu), None), PairFiles(None, None),
     PairFiles(Some(Base_ubuntu), Some(Base_Fedora)), PairFiles(Some(Base_centos), None)}
    \cup {[PairFiles(Some(Base_ubuntu), None) EXCEPT ![FilePath(ToolDir, i)] = f] :
             i \in {1, 2}, f \in {NoFile, MalformedFile}}

\* a tree with a toolchain the machine name "dev" is found by, one the
\* machine name "a/b" is found by, and one that is found without a machine
\* name
NamedFiles ==
    PairFiles(Some(Base_ubuntu), None)
       @@ (<<".mc", "a", "b", "a", "b.yaml">> :>
              OkFile([EmptyYaml EXCEPT !.base = Some(Base_ubuntu)], None))
       @@ (<<".mc", "dev", "dev.yaml">> :>
              OkFile([EmptyYaml EXCEPT !.base = Some(Base_centos), !.mixin = <<Ref(2)>>],
                     None))
       @@ (<<".mc", "mc.yaml">> :>
              OkFile([EmptyYaml EXCEPT !.base = Some(Base_Fedora),
                                       !.mixin = <<<<"dev", "2">>>>],
                     None))

\* a file that cannot be read
UnreadableFile == [OkFile(EmptyYaml, None) EXCEPT !.readable = FALSE]

\* the pair with the root or file 2 replaced by a directory or by a file that
\* cannot be read, with the root's reference written through "..", through
\* the root file itself or to a file that is not there, and the pair in a
\* directory that cannot be listed
ErrorFileSystems ==
    {[PairFiles(Some(Base_ubuntu), None) EXCEPT ![FilePath(ToolDir, i)] = f] :
        i \in {1, 2}, f \in {Directory(TRUE), UnreadableFile}}
    \cup {[PairFiles(Some(Base_ubuntu), None)
              EXCEPT ![FilePath(ToolDir, 1)].yaml.mixin = <<r>>] :
             r \in {<<"..", "dev", "2">>, <<"src", "..", "2">>, <<"lib", "..", "2">>,
                    <<"1.yaml", "..", "2">>, <<"2.yaml", "2">>, <<"..", "2">>}}
    \cup {(ToolDir :> Directory(FALSE)) @@ PairFiles(Some(Base_ubuntu), None)}

UserConfigs ==
    {NoUserConfig,
     [ok |-> TRUE, publish |-> <<Publish(None, 9000, 9000)>>, volume |-> <<>>,
      env |-> {<< <<"A">>, <<"B">> >>, << <<"C">>, <<"D">> >>}],
     \* env::current_dir() fails
     [ok |-> FALSE, publish |-> <<>>, volume |-> <<>>, env |-> {}]}


\* alias files: none, one that is no YAML map, one that cannot be opened, one
\* that sends "dev" to ".mc/./dev/1", and one in .mc that sends it to
\* "dev/1.yml" behind one without it
AliasChoices ==
    {NoAliases,
     <<[kind |-> "invalid", map |-> <<>>], NoAliasFile>>,
     <<NoAliasFile, [kind |-> "unreadable", map |-> <<>>]>>,
     <<AliasFile("dev" :> <<".mc", ".", "dev", "1">>), NoAliasFile>>,
     <<AliasFile("ci" :> <<"ci">>), AliasFile("dev" :> <<"dev", "1.yml">>)>>}

\* invocations with -f on every tree: with every user configuration, or with
\* a standard output that cannot be written
MainInitFile ==
    /\ fs \in MainFileSystems /\ aliases = NoAliases
    /\ cli \in CliChoices /\ stderr = "open"
    /\ \/ userCfg \in UserConfigs /\ stdout = "open"
       \/ userCfg = NoUserConfig /\ stdout = "full"

\* invocations with -f that name the root with a "." on the way
MainInitDotted ==
    /\ fs \in MainFileSystems /\ aliases = NoAliases
    /\ cli \in DottedClis /\ userCfg = NoUserConfig
    /\ stdout = "open" /\ stderr = "open"

\* the same with a standard error that cannot be written
MainInitStderr ==
    /\ fs \in MainFileSystems /\ aliases = NoAliases
    /\ cli \in {c \in CliChoices : ~c.dry_run /\ ~c.force} /\ userCfg = NoUserConfig
    /\ stdout = "open" /\ stderr = "full"

\* invocations without -f, with and without alias files, one beside a
\* directory named like the first candidate
MainInitLookup ==
    /\ fs \in {PairFiles(Some(Base_ubuntu), None), NamedFiles,
               NamedFiles @@ (<<"dev.yaml">> :> Directory(TRUE))}
    /\ aliases \in AliasChoices
    /\ cli \in LookupClis /\ userCfg = NoUserConfig
    /\ stdout = "open" /\ stderr \in {"open", "full"}

\* invocations with -f on trees that end the load or the conversion, by a
\* user with or without a name
MainInitErrors ==
    /\ fs \in ErrorFileSystems /\ aliases = NoAliases
    /\ cli \in {Cli(dry, FALSE, NoParams) : dry \in BOOLEAN} /\ userCfg = NoUserConfig
    /\ stdout = "open" /\ stderr \in {"open", "full"}
    /\ host \in {DefaultHost, [DefaultHost EXCEPT !.uname = None]}

MainInit ==
    /\ PmIdle
    /\ \/ (MainInitFile \/ MainInitDotted \/ MainInitStderr \/ MainInitLookup)
          /\ host = DefaultHost
       \/ MainInitErrors
    /\ images = {} /\ runs = 1 /\ prevTag = None
    /\ Started

SpecMain == MainInit /\ [][Main]_vars

\* ---- repeated invocations on one tree, host and directory
DirUniverse == {"src", "lib", ".git"}

RerunInit ==
    /\ PmIdle
    /\ \E S \in SUBSET DirUniverse :
          fs = Files(PairFiles(Some(Base_ubuntu), None)) @@ DirsOf(ToolDir, S)
    /\ aliases = NoAliases /\ host = DefaultHost
    /\ stdout = "open" /\ stderr = "open"
    /\ cli \in CliChoices /\ userCfg = NoUserConfig
    /\ images = {} /\ runs = 1 /\ prevTag = None
    /\ Started

SpecRerun == RerunInit /\ [][Main]_vars

\* ----------------------------------------------------- resolution order
PathsOf(mixins) == [k \in 1..Len(mixins) |-> mixins[k].path]

\* what the file system holds at a path, and where
File(p) == Resolve(fs, p).file
Key(p) == Resolve(fs, p).key
\* what was found is a file that can be read and parsed
GoodFile(found) == found.kind = "File" /\ found.file.readable /\ found.file.wellformed
Good(p) == GoodFile(Resolve(fs, p))

\* a path without its empty fields and without the "." fields after the first
Plain(path) == SelectSeq([k \in 1..Len(path) |-> IF k > 1 /\ path[k] = "." THEN "" ELSE path[k]],
                         LAMBDA c : c # "")

\* the references `mixin` of a file in directory dir, as the paths the loader
\* has for them: the directory, then the reference with ".yaml" appended, the
\* empty and "." fields on the way counting for nothing
RefPathsOf(dir, mixin) ==
    [k \in 1..Len(mixin) |->
        Plain(dir \o Parent(mixin[k])) \o <<Last(mixin[k]) \o ".yaml">>]

\* the files the file at p references
RefPaths(p) == RefPathsOf(Parent(p), File(p).yaml.mixin)

\* s without the elements that occur earlier in s
DropRepeats(s) ==
    LET F[i \in 0..Len(s)] ==
          IF i = 0 THEN <<>>
          ELSE IF \E j \in 1..(i - 1) : s[j] = s[i] THEN F[i - 1]
          ELSE Append(F[i - 1], s[i])
    IN F[Len(s)]

RECURSIVE Resolution(_), Traversal(_)
\* for each reference of refs in declaration order its own resolution and
\* then the reference, later repeats dropped
ResolutionOf(refs) ==
    DropRepeats(Flatten([k \in 1..Len(refs) |-> Resolution(refs[k]) \o <<refs[k]>>]))

\* the flattened resolution of file p
Resolution(p) == ResolutionOf(RefPaths(p))

\* for each reference of refs in declaration order the traversal below it and
\* then the reference
TraversalOf(refs) ==
    Flatten([k \in 1..Len(refs) |-> Traversal(refs[k]) \o <<refs[k]>>])

\* the declaration-order depth-first traversal below p, every encounter listed
\* (a file is listed after what it references)
Traversal(p) == TraversalOf(RefPaths(p))

RECURSIVE ReachableFrom(_)
\* S when T, the files of S and what they reference, holds nothing new;
\* otherwise what is reachable from T
ReachableVia(S, T) == IF T = S THEN S ELSE ReachableFrom(T)

\* the files reachable from the set S of files by references, S included
ReachableFrom(S) == ReachableVia(S, S \cup UNION {Range(RefPaths(p)) : p \in S})

Loaded == pc \in {"convert", "done"} /\ loadErr = "" /\ IsSome(config)

\* C2 as stated: on an acyclic reference graph Mixin::load succeeds and the
\* flattened children are the concatenation, reference by reference in
\* declaration order, of the descendants of the reference followed by the
\* reference; the merge order of the conversion is that list followed by the
\* root.
C2_AsStated ==
    pc # "load" =>
       /\ Loaded
       /\ PathsOf(Unwrap(config).children) = Traversal(rootPath)
       /\ PathsOf(merge_order(Unwrap(config))) = Traversal(rootPath) \o <<rootPath>>

\* C2 amended: the same concatenation with every path listed once, where it
\* comes first: a reference whose path is already in the list adds nothing,
\* neither itself nor its descendants.  With no path reached twice this is
\* the plain concatenation.
C2_MergeOrder ==
    pc # "load" =>
       /\ Loaded
       /\ PathsOf(Unwrap(config).children) = Resolution(rootPath)
       /\ NoDuplicates(Traversal(rootPath)) =>
              PathsOf(Unwrap(config).children) = Traversal(rootPath)
       /\ PathsOf(merge_order(Unwrap(config))) = Resolution(rootPath) \o <<rootPath>>

\* the diamond, 1 references [2, 3] and both reference 4: the plain
\* concatenation is 4, 2, 4, 3 and the merge order is 4, 2, 3, then the root
C2_Witness ==
    /\ Loaded
    /\ File(rootPath).yaml.mixin = <<Ref(2), Ref(3)>>
    /\ File(FilePath(ToolDir, 2)).yaml.mixin = <<Ref(4)>>
    /\ File(FilePath(ToolDir, 3)).yaml.mixin = <<Ref(4)>>
    /\ Traversal(rootPath) = [k \in 1..4 |-> FilePath(ToolDir, <<4, 2, 4, 3>>[k])]
    /\ PathsOf(merge_order(Unwrap(config)))
          = [k \in 1..3 |-> FilePath(ToolDir, <<4, 2, 3>>[k])] \o <<rootPath>>

\* the files a list of paths leads to
KeysOf(paths) == [k \in 1..Len(paths) |-> Key(paths[k])]

\* C3: after Mixin::load on an acyclic graph the children's paths are pairwise
\* distinct, every file reachable from the root (the root apart) is among the
\* children exactly once, and each sits where the declaration-order
\* depth-first traversal first comes to it.
C3_DiamondDedup ==
    Loaded =>
       /\ NoDuplicates(PathsOf(Unwrap(config).children))
       /\ NoDuplicates(KeysOf(PathsOf(Unwrap(config).children)))
       /\ Range(KeysOf(PathsOf(Unwrap(config).children)))
             = {Key(p) : p \in ReachableFrom({rootPath})} \ {Key(rootPath)}
       /\ KeysOf(PathsOf(Unwrap(config).children))
             = DropRepeats(KeysOf(Traversal(rootPath)))

\* ------------------------------------------------------ dialect resolution
\* the part of s before its first ':'
BeforeColon(s) ==
    LET n == CHOOSE n \in 0..Len(s) :
                /\ \A i \in 1..n : s[i] # ":"
                /\ n = Len(s) \/ s[n + 1] = ":"
    IN SubSeq(s, 1, n)

\* t lower-cased is the lower-case ASCII text e: every character of t is the
\* character of e at its place, or a capital that lowers to that one
\* character
LowersTo(t, e) ==
    /\ Len(t) = Len(e)
    /\ \A i \in 1..Len(t) :
          \/ t[i] = e[i] /\ t[i] \notin Range(UpperChars) \cup Range(OtherCapitals) \cup {Sigma}
          \/ \E k \in 1..26 : UpperChars[k] = t[i] /\ LowerChars[k] = e[i]
          \/ \E k \in 1..Len(OtherCapitals) :
                OtherCapitals[k] = t[i] /\ OtherLowered[k] = <<e[i]>>

\* what a table of (distro token, package manager) pairs resolves s to
Dialect(table, s) ==
    IF \E e \in table : LowersTo(BeforeColon(s), e[1])
    THEN PmOk((CHOOSE e \in table : LowersTo(BeforeColon(s), e[1]))[2])
    ELSE [kind |-> "UnknownBase", pm |-> "", raw |-> s]

CommonTable ==
    {<<Tok_fedora, "DNF">>, <<Tok_debian, "APT">>, <<Tok_ubuntu, "APT">>,
     <<Tok_archlinux, "PACMAN">>, <<Tok_alpine, "APK">>}

\* the openSUSE rows with the image names "opensuse/leap", "opensuse/tumbleweed"
SlashTable == CommonTable \cup {<<Tok_leap, "ZYPPER">>, <<Tok_tumbleweed, "ZYPPER">>}

\* the openSUSE rows as "opensuse-leap", "opensuse-tumbleweed"
DashTable ==
    CommonTable \cup
    {<<<<"o","p","e","n","s","u","s","e","-","l","e","a","p">>, "ZYPPER">>,
     <<<<"o","p","e","n","s","u","s","e","-","t","u","m","b","l","e","w","e","e","d">>,
       "ZYPPER">>}

\* C9 as stated: the text before the first ':' of a base, lower-cased, is
\* resolved by the table fedora -> dnf, debian, ubuntu -> apt, opensuse-leap,
\* opensuse-tumbleweed -> zypper, archlinux -> pacman, alpine -> apk; any other
\* token is UnknownBase with the whole base as declared.
C9_DashTable == IsSome(pmResult) => Unwrap(pmResult) = Dialect(DashTable, pmInput)

\* C9 amended: the same with the openSUSE rows opensuse/leap and
\* opensuse/tumbleweed.
C9_Dialect == IsSome(pmResult) => Unwrap(pmResult) = Dialect(SlashTable, pmInput)

\* "OPENSUSE/LEAP:A:b" resolves to zypper, "Centos:22" is unknown as declared
C9_Witness ==
    /\ IsSome(pmResult)
    /\ \/ /\ pmInput = ToUpper(Tok_leap) \o <<":", "A", ":", "b">>
          /\ Unwrap(pmResult).pm = "ZYPPER"
       \/ /\ pmInput = <<"C","e","n","t","o","s",":","2","2">>
          /\ Unwrap(pmResult) = [kind |-> "UnknownBase", pm |-> "", raw |-> pmInput]

\* ------------------------------------------------------------- conversion
\* Dockerfile::try_from has returned
Converted ==
    loadErr = "" /\ pc \notin {"idle", "lookup", "load", "convert"} /\ failure # "lookup"

\* the lookup has ended and has led main to a toolchain file, and that file
ToolchainFound == pc \notin {"idle", "lookup"} /\ failure # "lookup"
Toolchain == rootPath

\* the merge order, by path: the resolution of the root, then the root
MergePaths == Resolution(Toolchain) \o <<Toolchain>>

DeclaresBase(p) == IsSome(File(p).yaml.base)
Declaring == SelectSeq(MergePaths, DeclaresBase)

\* C1: with no base in the merge order the conversion fails with NoBase; with
\* two or more it fails with MultipleBases naming the first and the second
\* declaring file in merge order; with exactly one, of a known distro, it
\* succeeds and the first instruction is FROM that base.
C1_BaseInvariant ==
    Converted =>
       /\ Len(Declaring) = 0 =>
             convErr = Some(ConvErr("NoBase", <<>>, <<>>, <<>>)) /\ dockerfile = None
       /\ Len(Declaring) >= 2 =>
             /\ convErr = Some(ConvErr("MultipleBases", Declaring[1], Declaring[2], <<>>))
             /\ dockerfile = None
       /\ (Len(Declaring) = 1
             /\ Dialect(SlashTable, Unwrap(File(Declaring[1]).yaml.base)).kind = "Ok") =>
             /\ convErr = None /\ IsSome(dockerfile)
             /\ Unwrap(dockerfile).entries[1] = FROM(Unwrap(File(Declaring[1]).yaml.base))

\* the entries of d between the sudo bootstrap and the user provisioning
InstallSection(d) ==
    LET e == d.entries
        sudo == CHOOSE k \in 1..Len(e) :
                   e[k] = COMMENT(<<"Installing sudo and allow sudo for anyone">>)
        user == CHOOSE k \in 1..Len(e) : e[k] = COMMENT(<<"Configure user">>)
    IN SubSeq(e, sudo + 3, user - 1)

\* the package names of the install commands of the files, in order: the
\* words of each command after the install prefix of the dialect
InstalledNames(d) ==
    LET sec == InstallSection(d)
        prefix == Len(Words(Chars(<<install_prefix(Dialect(SlashTable,
                                                           d.entries[1].a).pm)>>)))
    IN Flatten([k \in 1..Len(sec) |->
                  IF sec[k].op = "RUN"
                  THEN SubSeq(Words(sec[k].a), prefix + 1, Len(Words(sec[k].a)))
                  ELSE <<>>])

\* C4: every package name occurs at most once in the install commands of the
\* files: not in two batches and not twice in one batch.
C4_AtMostOnce ==
    (Converted /\ IsSome(dockerfile)) => NoDuplicates(InstalledNames(Unwrap(dockerfile)))

\* the packages file number k of the merge order contributes: those of its
\* list that no earlier file of the merge order lists
Contribution(order, k) ==
    LET unlisted(package_name) ==
          \A j \in 1..(k - 1) : package_name \notin Range(File(order[j]).yaml.install)
    IN SelectSeq(File(order[k]).yaml.install, unlisted)

\* the comment and the install command of file number k of the merge order,
\* for the packages `names` it contributes below the base `base`
Batch(order, k, names, base) ==
    IF names = <<>> THEN <<>>
    ELSE <<COMMENT(<<"Installs from: ">> \o Path_display(order[k])),
           RUN(<<install_prefix(Dialect(SlashTable, base).pm), " ">> \o Joined(names))>>

\* the batches of the files of the merge order
Batches(order, base) ==
    Flatten([k \in 1..Len(order) |-> Batch(order, k, Contribution(order, k), base)])

\* C5: a package listed by several files is installed by the earliest of them
\* in merge order; the batches come in merge order, each a comment naming the
\* file and then one install command; a file that contributes no package has
\* no comment and no command.
C5_FirstWriterWins ==
    (Converted /\ IsSome(dockerfile)) =>
       InstallSection(Unwrap(dockerfile))
          = Batches(MergePaths, Unwrap(File(Declaring[1]).yaml.base))

\* file 2 lists [git, curl], the root lists [curl, git]: one batch, of file 2
C5_Witness ==
    /\ Converted /\ IsSome(dockerfile)
    /\ File(FilePath(ToolDir, 2)).yaml.install = <<"git", "curl">>
    /\ File(rootPath).yaml.install = <<"curl", "git">>
    /\ InstallSection(Unwrap(dockerfile)) =
          <<COMMENT(<<"Installs from: .mc/dev/2.yaml">>),
            RUN(<<"apt install -y git curl">>)>>

\* ----------------------------------------------------------- cache policy
Invoked(op) == \E i \in 1..Len(calls) : calls[i] = op
Times(op) == Cardinality({i \in 1..Len(calls) : calls[i] = op})

\* a non-dry-run invocation that reached the cache policy and has ended
PolicyDone == pc = "done" /\ Invoked("exists")

\* run comes at most once, last, after a skipped or successful build, never
\* after a failed one
RunOnce ==
    /\ Times("run") <= 1 /\ Times("build") <= 1
    /\ buildResult = "failed" => ~Invoked("run")
    /\ Invoked("run") =>
          /\ calls[Len(calls)] = "run"
          /\ (existsResult = "true" /\ ~cli.force) \/ buildResult = "ok"

\* run comes after every skipped or successful build
RunRule ==
    /\ RunOnce
    /\ PolicyDone =>
          (Invoked("run") <=>
             (existsResult = "true" /\ ~cli.force) \/ buildResult = "ok")

\* main has a line to print after exists() and cannot print it
CannotAnnounce ==
    stdout = "full" /\ ((existsResult = "true" /\ ~cli.force) \/ cli.force)

\* C6 as stated: build is invoked exactly if exists(tag) is false or force is
\* set, never when exists(tag) is true without force; run is invoked once
\* after a skipped or successful build and never after a failed build.
C6_AsStated ==
    /\ PolicyDone => (Invoked("build") <=> (existsResult = "false" \/ cli.force))
    /\ (existsResult = "true" /\ ~cli.force) => ~Invoked("build")
    /\ RunRule

\* C6 amended: the same whenever exists(tag) returns true or false and the
\* line main prints about skipping or forcing the build can be written to
\* standard output; when the exists check itself fails with an io error the
\* invocation ends with that error, and when the line cannot be written main
\* panics: in both cases neither build nor run is invoked, force or not.
C6_CachePolicy ==
    /\ (PolicyDone /\ existsResult # "err" /\ ~CannotAnnounce) =>
          /\ Invoked("build") <=> (existsResult = "false" \/ cli.force)
          /\ Invoked("run") <=> (existsResult = "true" /\ ~cli.force) \/ buildResult = "ok"
    /\ (PolicyDone /\ existsResult = "err") => calls = <<"exists">> /\ exit = "err"
    /\ (PolicyDone /\ existsResult # "err" /\ CannotAnnounce) =>
          calls = <<"exists">> /\ exit = "panic"
    /\ (existsResult = "true" /\ ~cli.force) => ~Invoked("build")
    /\ RunOnce

\* the image exists and force is not set: exists, then run, no build
C6_Witness ==
    /\ pc = "done" /\ existsResult = "true" /\ ~cli.force
    /\ calls = <<"exists", "run">>

\* ----------------------------------------------------------- tag frame
\* C7: add_publishes, add_volumes and add_env (from the user configuration or
\* the command line) leave the instructions, the text, the hash and the tag of
\* the Dockerfile as they were, and with them the answer of exists.
C7_TagFrame ==
    [][(IsSome(dockerfile) /\ IsSome(dockerfile')) =>
          /\ Unwrap(dockerfile').entries = Unwrap(dockerfile).entries
          /\ write_to(Unwrap(dockerfile')) = write_to(Unwrap(dockerfile))
          /\ hash(Unwrap(dockerfile')) = hash(Unwrap(dockerfile))
          /\ tag(Unwrap(dockerfile')) = tag(Unwrap(dockerfile))
          /\ \A engine \in {"up", "down", "nospawn"} :
                exists(Unwrap(dockerfile'), images, engine)
                   = exists(Unwrap(dockerfile), images, engine)]_vars

\* publishes, volumes and env entries have been appended to a Dockerfile whose
\* instructions are those the conversion made
C7_Witness ==
    /\ pc = "policy"
    /\ Len(Unwrap(dockerfile).publish) >= 3
    /\ Len(Unwrap(dockerfile).volumes) >= 1
    /\ Len(Unwrap(dockerfile).env) >= 3
    /\ \E dirs \in context_listings(fs, Unwrap(config)) :
          Unwrap(dockerfile).entries
             = Unwrap(Dockerfile_try_from(Unwrap(config), host, dirs,
                                          "volumes").dockerfile).entries

\* ------------------------------------------------------- tag determinism
\* C8: a second conversion of the same tree, with the same host identity and
\* the same directory contents, derives the tag the first one derived.
C8_SameTag ==
    (IsSome(prevTag) /\ IsSome(dockerfile)) => tag(Unwrap(dockerfile)) = Unwrap(prevTag)

\* ------------------------------------------------------------ fatal errors
BadFile ==
    /\ ToolchainFound
    /\ \E p \in ReachableFrom({Toolchain}) : ~Good(p)
\* the declaring files are not one, or the one declares an unknown distro
SemanticErrorOf(declaring) ==
    \/ Len(declaring) # 1
    \/ Dialect(SlashTable, Unwrap(File(declaring[1]).yaml.base)).kind # "Ok"
SemanticError == ToolchainFound /\ ~BadFile /\ SemanticErrorOf(Declaring)
InvalidEnv == \E i \in 1..Len(cli.env) : \A j \in 1..Len(cli.env[i]) : cli.env[i][j] # "="

\* C10: a missing or malformed file, a semantic error or an invalid env entry
\* of the command line ends the invocation with no tree (file errors) and no
\* Dockerfile (file and semantic errors) returned, and exists, build and run
\* are not invoked.
C10_ErrorsAreFatal ==
    LET fatal(bad, semantic) ==
          /\ bad => config = None /\ dockerfile = None /\ pc \in {"lookup", "load", "done"}
          /\ semantic =>
                dockerfile = None /\ pc \in {"lookup", "load", "convert", "done"}
          /\ (bad \/ semantic \/ InvalidEnv \/ ~userCfg.ok) =>
                calls = <<>> /\ pc # "policy" /\ out = None
        errors(bad) == fatal(bad, ToolchainFound /\ ~bad /\ SemanticErrorOf(Declaring))
    IN /\ errors(BadFile)
       /\ failure \in {"load", "convert", "user_config", "cli"} =>
             calls = <<>> /\ pc = "done" /\ exit # ""

\* the command line carries the env entry "BAD": main has returned without
\* touching the engine
C10_Witness ==
    /\ InvalidEnv /\ ~BadFile /\ ~SemanticError
    /\ pc = "done" /\ failure = "cli" /\ calls = <<>>

\* C11: an engine failure ends the invocation with a failure result: a build
\* that does not complete with success, and a run that completes with a
\* non-zero status or cannot be started.
C11_EngineFailuresFatal ==
    /\ buildResult = "failed" => exit = "err"
    /\ (pc = "done" /\ runResult \in {"nonzero", "err"}) => exit = "err"

\* the files the file at key k references
FileRefs(k) == {Key(r) : r \in {q \in Range(RefPaths(k)) : Resolve(fs, q).kind = "File"}}

RECURSIVE FilesFrom(_)
\* the files reachable from the set S of files by references, S included
FilesFrom(S) ==
    LET T == S \cup UNION {FileRefs(k) : k \in S}
    IN IF T = S THEN S ELSE FilesFrom(T)

\* a file reachable from the root that reaches itself by references
OnCycle(k) == k \in FilesFrom(FileRefs(k))
CycleReachable == \E k \in FilesFrom({Key(rootPath)}) : OnCycle(k)

\* C12: when a cycle of references is reachable from the root, the load ends
\* with an error that Mixin::load returns, and not by running out of stack.
C12_CycleFailsFast ==
    (pc # "load" /\ CycleReachable) =>
       /\ loadErr \notin {"", "StackOverflow"}
       /\ exit = "ok"

RECURSIVE EnvOrders(_, _)
\* the env lists that hold the env entries of the files order[k..], file by
\* file, each file's map in any order of iteration
EnvOrders(order, k) ==
    IF k > Len(order) THEN {<<>>}
    ELSE {l \o rest : l \in Listings(File(order[k]).yaml.env),
                      rest \in EnvOrders(order, k + 1)}

\* C13: straight after the conversion the publish list holds the publish
\* entries of the files in merge order, the volume list their volume entries
\* and the env list their env entries, nothing dropped and nothing merged.
C13_ParamsAccumulate ==
    (pc = "user_config" /\ IsSome(dockerfile)) =>
       LET d == Unwrap(dockerfile)
           order == MergePaths
       IN /\ d.publish = Flatten([k \in 1..Len(order) |-> File(order[k]).yaml.publish])
          /\ d.volumes = Flatten([k \in 1..Len(order) |-> File(order[k]).yaml.volume])
          /\ d.env \in EnvOrders(order, 1)

\* ------------------------------------------------- Publish: Display, FromStr
\* text is a sequence of characters
Digits == <<"0", "1", "2", "3", "4", "5", "6", "7", "8", "9">>
IsDigit(c) == \E k \in 1..10 : Digits[k] = c
DigitValue(c) == (CHOOSE k \in 1..10 : Digits[k] = c) - 1

RECURSIVE u16_to_string(_)
\* Display of a u16: decimal, no sign, no leading zeros
u16_to_string(n) ==
    IF n < 10 THEN <<Digits[n + 1]>>
    ELSE u16_to_string(n \div 10) \o <<Digits[(n % 10) + 1]>>

\* Result<T, E>: the value, or the kind of the error
ParseOk(v) == [kind |-> "Ok", value |-> Some(v)]
ParseErr(kind) == [kind |-> kind, value |-> None]
Parsed(r) == Unwrap(r.value)

RECURSIVE digits_value(_, _)
\* the digits of s read from the left onto acc; -1 on a character that is no
\* digit or when the value leaves the u16 range
digits_value(s, acc) ==
    IF s = <<>> THEN acc
    ELSE IF ~IsDigit(Head(s)) THEN -1
    ELSE LET next == acc * 10 + DigitValue(Head(s))
         IN IF next >= U16 THEN -1 ELSE digits_value(Tail(s), next)

\* u16::from_str: an optional leading '+', then at least one digit
u16_from_str(s) ==
    IF s = <<>> THEN ParseErr("IntParseError")
    ELSE LET body == IF Head(s) = "+" THEN Tail(s) ELSE s
             v == digits_value(body, 0)
         IN IF body = <<>> \/ v < 0 THEN ParseErr("IntParseError") ELSE ParseOk(v)

RECURSIVE split(_, _)
\* str::split(sep): the fields between the separators, at least one field
split(s, sep) ==
    IF \A k \in 1..Len(s) : s[k] # sep THEN <<s>>
    ELSE LET k == CHOOSE k \in 1..Len(s) :
                    s[k] = sep /\ \A j \in 1..(k - 1) : s[j] # sep
         IN <<SubSeq(s, 1, k - 1)>> \o split(SubSeq(s, k + 1, Len(s)), sep)

\* impl Display for Publish
Publish_to_string(p) ==
    (IF IsSome(p.host_ip) THEN Unwrap(p.host_ip) \o <<":">> ELSE <<>>)
       \o u16_to_string(p.host_port) \o <<":">> \o u16_to_string(p.machine_port)

\* impl FromStr for Publish
Publish_from_str_any_length(s) ==
    LET fields == split(s, ":")
        n == Len(fields)
    IN IF n >= 2
       THEN LET host_port == u16_from_str(fields[n - 1])
                machine_port == u16_from_str(fields[n])
            IN IF host_port.kind # "Ok" THEN host_port
               ELSE IF machine_port.kind # "Ok" THEN machine_port
               ELSE IF n = 2
                    THEN ParseOk(Publish(None, Parsed(host_port), Parsed(machine_port)))
               ELSE ParseOk(Publish(Some(fields[1]), Parsed(host_port), Parsed(machine_port)))
       ELSE ParseErr("InvalidFormat")
Publish_from_str(s) ==
    LET fields == split(s, ":")
        n == Len(fields)
    IN IF n >= 2
       THEN LET host_port == u16_from_str(fields[n - 1])
                machine_port == u16_from_str(fields[n])
            IN IF host_port.kind # "Ok" THEN host_port
               ELSE IF machine_port.kind # "Ok" THEN machine_port
               ELSE IF n = 2
                    THEN ParseOk(Publish(None, Parsed(host_port), Parsed(machine_port)))
               ELSE IF n = 3
                    THEN ParseOk(Publish(Some(fields[1]), Parsed(host_port),
                                         Parsed(machine_port)))
               ELSE ParseErr("InvalidFormat")
       ELSE ParseErr("InvalidFormat")

\* a value to format and parse back, or a text to parse and format back
CodecValue(type, v) == [origin |-> "value", type |-> type, value |-> Some(v), text |-> <<>>]
CodecText(type, t) == [origin |-> "text", type |-> type, value |-> None, text |-> t]

\* Publish values: no host ip or one of up to MaxIpLen characters, and ports
\* at and between the ends of the u16 range
IpChars == {"1", ".", ":"}
PortChoices == {0, 9, 80, U16 - 1}
PublishValues ==
    {Publish(ip, hp, mp) :
        ip \in {None} \cup {Some(t) : t \in SeqsUpTo(IpChars, MaxIpLen)},
        hp \in PortChoices, mp \in PortChoices}

\* texts handed to Publish::from_str
TextChars == {"8", "0", "+", ":", "h"}
PublishTexts ==
    SeqsUpTo(TextChars, MaxTextLen)
       \cup {<<"6", "5", "5", "3", "6", ":", "8">>, <<"8", ":", "6", "5", "5", "3", "5">>,
             <<"h", ":", "8", ":", "-", "1">>}

PublishInit ==
    /\ pmInput = <<>> /\ pmResult = None /\ MainIdle
    /\ codecIn \in {CodecValue("publish", p) : p \in PublishValues}
                   \cup {CodecText("publish", t) : t \in PublishTexts}
    /\ codecMid = None /\ codecOut = None

\* p.to_string(): of the value given, or of the value parsed from the text given
PublishFormat ==
    /\ codecIn.type = "publish"
    /\ \/ /\ codecIn.origin = "value" /\ codecMid = None
          /\ codecMid' = Some(Publish_to_string(Unwrap(codecIn.value)))
          /\ UNCHANGED codecOut
       \/ /\ codecIn.origin = "text" /\ IsSome(codecMid) /\ codecOut = None
          /\ Unwrap(codecMid).kind = "Ok"
          /\ codecOut' = Some(Publish_to_string(Parsed(Unwrap(codecMid))))
          /\ UNCHANGED codecMid
    /\ UNCHANGED <<pmInput, pmResult, mainVars, codecIn>>

\* Publish::from_str(text): of the text given, or of the text formatted
PublishParse ==
    /\ codecIn.type = "publish"
    /\ \/ /\ codecIn.origin = "text" /\ codecMid = None
          /\ codecMid' = Some(Publish_from_str(codecIn.text))
          /\ UNCHANGED codecOut
       \/ /\ codecIn.origin = "value" /\ IsSome(codecMid) /\ codecOut = None
          /\ codecOut' = Some(Publish_from_str(Unwrap(codecMid)))
          /\ UNCHANGED codecMid
    /\ UNCHANGED <<pmInput, pmResult, mainVars, codecIn>>

SpecPublish == PublishInit /\ [][PublishFormat \/ PublishParse]_vars

\* a port field as Display writes it
PlainPort(f) ==
    u16_from_str(f).kind = "Ok" /\ u16_to_string(Parsed(u16_from_str(f))) = f
HasColon(t) == \E k \in 1..Len(t) : t[k] = ":"
\* text of the form [host_ip:]host_port:machine_port
PublishForm(t) ==
    LET fields == split(t, ":")
    IN /\ Len(fields) \in {2, 3}
       /\ PlainPort(fields[Len(fields) - 1]) /\ PlainPort(fields[Len(fields)])

\* C14 as stated: every Publish value parses back from its text, and every
\* text [host_ip:]host_port:machine_port is parsed and formats back to itself.
C14_AsStated ==
    /\ (codecIn.type = "publish" /\ codecIn.origin = "value" /\ IsSome(codecOut)) =>
          codecOut = Some(ParseOk(Unwrap(codecIn.value)))
    /\ (codecIn.type = "publish" /\ codecIn.origin = "text" /\ IsSome(codecMid)
           /\ PublishForm(codecIn.text)) =>
          /\ Unwrap(codecMid).kind = "Ok"
          /\ IsSome(codecOut) => codecOut = Some(codecIn.text)

\* C14: a Publish value whose host ip holds no ':' parses back from its text
\* to an equal value; one whose host ip holds a ':' formats to a text that
\* from_str rejects with InvalidFormat; a text that from_str accepts and whose
\* port fields are plain decimal formats back to itself.
C14_PublishRoundTrip ==
    /\ (codecIn.type = "publish" /\ codecIn.origin = "value" /\ IsSome(codecOut)) =>
          IF IsSome(Unwrap(codecIn.value).host_ip)
             /\ HasColon(Unwrap(Unwrap(codecIn.value).host_ip))
          THEN codecOut = Some(ParseErr("InvalidFormat"))
          ELSE codecOut = Some(ParseOk(Unwrap(codecIn.value)))
    /\ (codecIn.type = "publish" /\ codecIn.origin = "text" /\ IsSome(codecOut)
           /\ PublishForm(codecIn.text)) =>
          codecOut = Some(codecIn.text)

\* 1.1:80:9 has been formatted and parsed back, and 0:8:80 parsed and formatted
C14_Witness ==
    \/ /\ codecIn = CodecValue("publish", Publish(Some(<<"1", ".", "1">>), 80, 9))
       /\ codecMid = Some(<<"1", ".", "1", ":", "8", "0", ":", "9">>)
       /\ codecOut = Some(ParseOk(Unwrap(codecIn.value)))
    \/ /\ codecIn = CodecText("publish", <<"h", ":", "8", ":", "8", "0">>)
       /\ codecOut = Some(codecIn.text)

\* -------------------------------------------------- Volume: Display, FromStr
\* the options Volume::from_str knows
Opt_ro == <<"r", "o">>
Opt_readonly == <<"r", "e", "a", "d", "o", "n", "l", "y">>
Opt_volume_nocopy == <<"v", "o", "l", "u", "m", "e", "-", "n", "o", "c", "o", "p", "y">>
KnownOpts == {Opt_ro, Opt_readonly, Opt_volume_nocopy}

RECURSIVE join(_, _)
\* [String]::join(sep)
join(parts, sep) ==
    IF parts = <<>> THEN <<>>
    ELSE IF Len(parts) = 1 THEN parts[1]
    ELSE parts[1] \o <<sep>> \o join(Tail(parts), sep)

\* impl Display for Volume; a path is written as its characters
Volume_to_string(v) ==
    v.host_path \o <<":">> \o v.machine_path
       \o (IF v.opts # <<>> THEN <<":">> \o join(v.opts, ",") ELSE <<>>)

\* impl FromStr for Volume
Volume_from_str_unchecked(s) ==
    LET splits == split(s, ":")
    IN IF Len(splits) \in {2, 3}
       THEN ParseOk(Volume(splits[1], splits[2],
                           IF Len(splits) = 3 THEN split(splits[3], ",") ELSE <<>>))
       ELSE ParseErr("InvalidFormat")
Volume_from_str(s) ==
    LET splits == split(s, ":")
    IN IF Len(splits) \in {2, 3}
       THEN LET opts == IF Len(splits) = 3 THEN split(splits[3], ",") ELSE <<>>
            IN IF \E k \in 1..Len(opts) : opts[k] \notin KnownOpts
               THEN ParseErr("InvalidFormat")
               ELSE ParseOk(Volume(splits[1], splits[2], opts))
       ELSE ParseErr("InvalidFormat")

PathChars == {"a", "/", ":"}

\* texts handed to Volume::from_str: one to four fields joined by ':'
FieldChoices ==
    {<<>>, <<"a">>, Opt_ro, <<"r", "w">>, join(<<Opt_ro, <<"r", "w">>>>, ","),
     join(<<Opt_readonly, Opt_ro>>, ",")}
VolumeTexts == {join(fields, ":") : fields \in SeqsUpTo(FieldChoices, 4) \ {<<>>}}

VolumeInit ==
    /\ pmInput = <<>> /\ pmResult = None /\ MainIdle
    \* Volume values: paths of up to MaxPathLen characters, up to MaxOpts options
    /\ \/ \E hp \in SeqsUpTo(PathChars, MaxPathLen), mp \in SeqsUpTo(PathChars, MaxPathLen),
             opts \in SeqsUpTo(KnownOpts, MaxOpts) :
             codecIn = CodecValue("volume", Volume(hp, mp, opts))
       \/ \E t \in VolumeTexts : codecIn = CodecText("volume", t)
    /\ codecMid = None /\ codecOut = None

\* v.to_string(): of the value given, or of the value parsed from the text given
VolumeFormat ==
    /\ codecIn.type = "volume"
    /\ \/ /\ codecIn.origin = "value" /\ codecMid = None
          /\ codecMid' = Some(Volume_to_string(Unwrap(codecIn.value)))
          /\ UNCHANGED codecOut
       \/ /\ codecIn.origin = "text" /\ IsSome(codecMid) /\ codecOut = None
          /\ Unwrap(codecMid).kind = "Ok"
          /\ codecOut' = Some(Volume_to_string(Parsed(Unwrap(codecMid))))
          /\ UNCHANGED codecMid
    /\ UNCHANGED <<pmInput, pmResult, mainVars, codecIn>>

\* Volume::from_str(text): of the text given, or of the text formatted
VolumeParse ==
    /\ codecIn.type = "volume"
    /\ \/ /\ codecIn.origin = "text" /\ codecMid = None
          /\ codecMid' = Some(Volume_from_str(codecIn.text))
          /\ UNCHANGED codecOut
       \/ /\ codecIn.origin = "value" /\ IsSome(codecMid) /\ codecOut = None
          /\ codecOut' = Some(Volume_from_str(Unwrap(codecMid)))
          /\ UNCHANGED codecMid
    /\ UNCHANGED <<pmInput, pmResult, mainVars, codecIn>>

SpecVolume == VolumeInit /\ [][VolumeFormat \/ VolumeParse]_vars

\* the text has a third field and one of its options is not a known one
UnknownOption(t) ==
    LET splits == split(t, ":")
    IN Len(splits) >= 3
          /\ \E k \in 1..Len(split(splits[3], ",")) : split(splits[3], ",")[k] \notin KnownOpts

\* C15 as stated: every Volume value parses back from its text to an equal
\* value, options in the same order, and a text with an option outside the
\* known ones in its third field is rejected with InvalidFormat.
C15_AsStated ==
    /\ (codecIn.type = "volume" /\ codecIn.origin = "value" /\ IsSome(codecOut)) =>
          codecOut = Some(ParseOk(Unwrap(codecIn.value)))
    /\ (codecIn.type = "volume" /\ codecIn.origin = "text" /\ IsSome(codecMid)
           /\ UnknownOption(codecIn.text)) =>
          codecMid = Some(ParseErr("InvalidFormat"))

\* C15: a Volume value whose paths hold no ':' parses back from its text to
\* an equal value, options in the same order; one with a ':' in a path does
\* not parse back to itself; a text with an option outside the known ones in
\* its third field is rejected with InvalidFormat.
C15_VolumeRoundTrip ==
    /\ (codecIn.type = "volume" /\ codecIn.origin = "value" /\ IsSome(codecOut)) =>
          LET v == Unwrap(codecIn.value)
          IN IF HasColon(v.host_path) \/ HasColon(v.machine_path)
             THEN codecOut # Some(ParseOk(v))
             ELSE codecOut = Some(ParseOk(v))
    /\ (codecIn.type = "volume" /\ codecIn.origin = "text" /\ IsSome(codecMid)
           /\ UnknownOption(codecIn.text)) =>
          codecMid = Some(ParseErr("InvalidFormat"))

\* a/:a:readonly,ro has been formatted and parsed back with its two options
C15_Witness ==
    /\ codecIn = CodecValue("volume", Volume(<<"a", "/">>, <<"a">>, <<Opt_readonly, Opt_ro>>))
    /\ codecMid = Some(<<"a", "/", ":", "a", ":">> \o Opt_readonly \o <<",">> \o Opt_ro)
    /\ codecOut = Some(ParseOk(Unwrap(codecIn.value)))

\* a:a:ro,rw has been handed to from_str
C15_WitnessRejected ==
    /\ codecIn = CodecText("volume", <<"a", ":", "a", ":", "r", "o", ",", "r", "w">>)
    /\ codecMid = Some(ParseErr("InvalidFormat"))

\* ------------------------------------------- Mixin::try_from: the file text
LF == "\n"
CR == "\r"
Delimiter == <<"-", "-", "-">>
FF == "\f"
\* the characters with the Unicode property White_Space, which char::is_whitespace
\* (and with it str::trim) takes as white space; one that has no escape in a
\* string is written by its code point
Whitespace ==
    {"\t", LF, "U+000B", FF, CR, " ", "U+0085", "U+00A0", "U+1680",
     "U+2000", "U+2001", "U+2002", "U+2003", "U+2004", "U+2005", "U+2006",
     "U+2007", "U+2008", "U+2009", "U+200A", "U+2028", "U+2029", "U+202F",
     "U+205F", "U+3000"}

\* content.replace("\r\n", "\n"): every carriage return that a line feed
\* follows is left out
replace_crlf(s) ==
    LET keep == {k \in 1..Len(s) : ~(s[k] = CR /\ k < Len(s) /\ s[k + 1] = LF)}
    IN [i \in 1..Cardinality(keep) |->
          s[CHOOSE k \in keep : Cardinality({j \in keep : j <= k}) = i]]

\* str::lines: the text is cut after each line feed; a line loses its line
\* feed and then one carriage return before it; the rest after the last line
\* feed is a line as it stands, if it is not empty
lines(s) ==
    LET fields == split(s, LF)
        n == Len(fields)
        strip_cr(l) == IF l # <<>> /\ l[Len(l)] = CR THEN SubSeq(l, 1, Len(l) - 1) ELSE l
    IN [k \in 1..(n - 1) |-> strip_cr(fields[k])]
       \o (IF fields[n] = <<>> THEN <<>> ELSE <<fields[n]>>)

\* str::trim: from the first to the last character that is no white space
trim(s) ==
    LET inner == {k \in 1..Len(s) : s[k] \notin Whitespace}
    IN IF inner = {} THEN <<>>
       ELSE SubSeq(s, CHOOSE k \in inner : \A j \in inner : k <= j,
                   CHOOSE k \in inner : \A j \in inner : j <= k)

\* ---- serde_yaml::from_str::<MixinYaml>: the block mappings the toolchain
\* files are written in.  A text outside these forms is left to the library
\* (`lib`)
LetterChars == Range(LowerChars) \cup Range(UpperChars)
KeyChars == LetterChars \cup Range(Digits) \cup {"_"}
PlainChars == KeyChars \cup {".", "/", "-", ":"}
\* the plain scalars that resolve to null or to a boolean
ReservedScalars ==
    {<<"n","u","l","l">>, <<"N","u","l","l">>, <<"N","U","L","L">>,
     <<"t","r","u","e">>, <<"T","r","u","e">>, <<"T","R","U","E">>,
     <<"f","a","l","s","e">>, <<"F","a","l","s","e">>, <<"F","A","L","S","E">>}

\* the number of spaces a line starts with
Indent(l) ==
    CHOOSE n \in 0..Len(l) :
       (\A i \in 1..n : l[i] = " ") /\ (n = Len(l) \/ l[n + 1] # " ")
\* a line without the spaces at its start and at its end
Body(l) ==
    LET n == Indent(l)
        m == CHOOSE m \in n..Len(l) :
                (\A i \in (m + 1)..Len(l) : l[i] = " ") /\ (m = n \/ l[m] # " ")
    IN SubSeq(l, n + 1, m)

\* a plain scalar of one word that is read as a string: it starts with a
\* letter or '/', or with a digit when a ':' follows somewhere
PlainScalar(t) ==
    /\ t # <<>> /\ \A i \in 1..Len(t) : t[i] \in PlainChars
    /\ \/ t[1] \in LetterChars \cup {"/"}
       \/ IsDigit(t[1]) /\ \E i \in 1..Len(t) : t[i] = ":"
    /\ t[Len(t)] # ":" /\ t \notin ReservedScalars

YamlNode(kind, text, items, pairs) ==
    [kind |-> kind, text |-> text, items |-> items, pairs |-> pairs]
YamlNull == YamlNode("null", <<>>, <<>>, {})
YamlOther == YamlNode("other", <<>>, <<>>, {})
\* the value written on the line of its key
InlineValue(t) ==
    IF t = <<>> THEN YamlNull
    ELSE IF t = <<"[", "]">> THEN YamlNode("seq", <<>>, <<>>, {})
    ELSE IF t = <<"{", "}">> THEN YamlNode("map", <<>>, <<>>, {})
    ELSE IF PlainScalar(t) THEN YamlNode("scalar", t, <<>>, {})
    ELSE YamlOther

\* the line of indent n and body b, with the value `value` after the first
\* colon that ends a key, if there is one (colons: where such colons are)
YamlLine_of(n, b, colons, value) ==
    LET k == CHOOSE k \in colons : TRUE
        line(type, key, v) == [type |-> type, indent |-> n, key |-> key, value |-> v]
    IN IF b = <<>> \/ b[1] = "#" THEN line("blank", <<>>, YamlNull)
       ELSE IF colons # {}
            THEN IF n = 0 /\ value.kind # "other" THEN line("key", SubSeq(b, 1, k - 1), value)
                 ELSE IF n >= 1 /\ value.kind = "scalar"
                      THEN line("sub", SubSeq(b, 1, k - 1), value)
                 ELSE line("other", <<>>, YamlNull)
       ELSE IF Len(b) >= 3 /\ b[1] = "-" /\ b[2] = " "
            THEN IF value.kind = "scalar" THEN line("item", <<>>, value)
                 ELSE line("other", <<>>, YamlNull)
       ELSE IF /\ \A i \in 1..Len(b) : b[i] \in PlainChars
               /\ b[1] # ":" /\ b[Len(b)] # ":" /\ b # <<"-">>
            THEN line("word", <<>>, YamlNull)
       ELSE line("other", <<>>, YamlNull)

\* where a colon ends a key in the body b of a line
KeyColons(b) ==
    {k \in 2..Len(b) :
        /\ b[k] = ":" /\ (k = Len(b) \/ b[k + 1] = " ")
        /\ \A j \in 1..(k - 1) : b[j] \in KeyChars}

\* the text of the value on a line of body b: what follows the colon of the
\* key, or the "- " of an item
ValueText(b, colons) ==
    IF colons # {} THEN Body(SubSeq(b, (CHOOSE k \in colons : TRUE) + 1, Len(b)))
    ELSE IF Len(b) >= 3 THEN Body(SubSeq(b, 3, Len(b)))
    ELSE <<>>

YamlLine_in(n, b, colons) == YamlLine_of(n, b, colons, InlineValue(ValueText(b, colons)))
YamlLine_at(n, b) == YamlLine_in(n, b, KeyColons(b))

\* what a line of the text is: blank (or a comment), the key of the mapping
\* (`key:` or `key: value`, not indented), an entry of a block sequence
\* (`- item`), an entry of a nested mapping (`key: value`, indented), one
\* word, or something else
YamlLine(l) == YamlLine_at(Indent(l), Body(l))

\* the value of a key with the inline value `inline` and the lines `below`
\* it
YamlBlock(inline, below) ==
    LET alike(type) == \A i \in 1..Len(below) :
                          below[i].type = type /\ below[i].indent = below[1].indent
    IN IF inline.kind # "null"
       THEN IF below = <<>> THEN inline ELSE YamlOther
       ELSE IF below = <<>> THEN YamlNull
       ELSE IF alike("item")
            THEN YamlNode("seq", <<>>, [i \in 1..Len(below) |-> below[i].value.text], {})
       ELSE IF alike("sub") /\ \A i, j \in 1..Len(below) :
                                  below[i].key = below[j].key => i = j
            THEN YamlNode("map", <<>>, <<>>,
                          {<<below[i].key, below[i].value.text>> : i \in 1..Len(below)})
       ELSE YamlOther

\* the line of the next key after line p of `content`, or the end
NextKey(content, p) ==
    LET later == {q \in (p + 1)..Len(content) : content[q].type = "key"}
    IN IF later = {} THEN Len(content) + 1
       ELSE CHOOSE q \in later : \A r \in later : q <= r

\* the value of the key on line p of `content`: its inline value, or the
\* block of the lines below it up to the next key
YamlValue(content, p) ==
    YamlBlock(content[p].value, SubSeq(content, p + 1, NextKey(content, p) - 1))

Key_base == <<"b", "a", "s", "e">>
Key_install == <<"i", "n", "s", "t", "a", "l", "l">>
Key_mixin == <<"m", "i", "x", "i", "n">>
Key_publish == <<"p", "u", "b", "l", "i", "s", "h">>
Key_volume == <<"v", "o", "l", "u", "m", "e">>
Key_env == <<"e", "n", "v">>
\* the fields of MixinYaml; any other key is skipped
MixinYamlKeys == {Key_base, Key_install, Key_mixin, Key_publish, Key_volume, Key_env}

\* the value v is of the type of the field `key`
FieldFits(key, v) ==
    \/ v.kind = "null"
    \/ key = Key_base /\ v.kind = "scalar"
    \/ key \in {Key_install, Key_mixin} /\ v.kind = "seq"
    \/ key = Key_publish /\ v.kind = "seq"
          /\ \A i \in 1..Len(v.items) : Publish_from_str(v.items[i]).kind = "Ok"
    \/ key = Key_volume /\ v.kind = "seq"
          /\ \A i \in 1..Len(v.items) : Volume_from_str(v.items[i]).kind = "Ok"
    \/ key = Key_env /\ v.kind = "map"

\* what the library answers on a text that is none of the forms above: an
\* error, or metadata that is not worked out here
Unmodelled == [unmodelled |-> TRUE]
LibraryAnswers == {ParseErr("InvalidData"), ParseOk(Unmodelled)}

\* the value of the field `key` among the lines `content` with the values
\* `values`: null when the key is not there
Field(content, values, key) ==
    LET at == {p \in 1..Len(content) : content[p].type = "key" /\ content[p].key = key}
    IN IF at = {} THEN YamlNull ELSE values[CHOOSE p \in at : TRUE]

\* MixinYaml of the values of its six fields
MixinYaml_of(v_base, v_install, v_mixin, v_publish, v_volume, v_env) ==
    [base |-> IF v_base.kind = "null" THEN None ELSE Some(v_base.text),
     install |-> v_install.items,
     mixin |-> v_mixin.items,
     publish |-> [i \in 1..Len(v_publish.items) |->
                    Parsed(Publish_from_str(v_publish.items[i]))],
     volume |-> [i \in 1..Len(v_volume.items) |->
                   Parsed(Volume_from_str(v_volume.items[i]))],
     env |-> v_env.pairs]

\* the lines of a document that are not blank
YamlLines(ls) ==
    SelectSeq([k \in 1..Len(ls) |-> YamlLine(ls[k])], LAMBDA y : y.type # "blank")

\* the document of the lines `content`, values[p] the value of the key on
\* line p, as MixinYaml
MixinYaml_from(content, values, lib) ==
    LET keys == {p \in 1..Len(content) : content[p].type = "key"}
        known == {p \in keys : content[p].key \in MixinYamlKeys}
    IN IF content = <<>> THEN lib
       ELSE IF \E p \in 1..Len(content) : content[p].type = "other" THEN lib
       ELSE IF content[1].type = "word" THEN ParseErr("InvalidData")
       ELSE IF content[1].type # "key" \/ \E p \in 1..Len(content) : content[p].type = "word"
            THEN lib
       ELSE IF \E p \in keys : values[p].kind = "other" THEN lib
       ELSE IF \E p, q \in known : p # q /\ content[p].key = content[q].key
            THEN ParseErr("InvalidData")
       ELSE IF \E p \in known : ~FieldFits(content[p].key, values[p])
            THEN ParseErr("InvalidData")
       ELSE IF \E p, q \in keys : p # q /\ content[p].key = content[q].key THEN lib
       ELSE ParseOk(MixinYaml_of(Field(content, values, Key_base),
                                 Field(content, values, Key_install),
                                 Field(content, values, Key_mixin),
                                 Field(content, values, Key_publish),
                                 Field(content, values, Key_volume),
                                 Field(content, values, Key_env)))

\* the values of the keys of the lines `content`
YamlValues(content) ==
    [p \in 1..Len(content) |->
        IF content[p].type = "key" THEN YamlValue(content, p) ELSE YamlNull]

MixinYaml_read(content, lib) == MixinYaml_from(content, YamlValues(content), lib)

\* serde_yaml::from_str::<MixinYaml>(text).  A field that is not set, or set
\* to null, is None; base is Some of the scalar, install and mixin are the
\* items, publish and volume the items parsed by their FromStr, env the
\* pairs.  A known key set twice and a value of another type are errors; the
\* answer on a document with no key, and on a text outside the forms above,
\* is `lib`
serde_yaml_from_str(text, lib) == MixinYaml_read(YamlLines(split(text, LF)), lib)

\* Option<String> of the script text
script_of(text) == IF text = <<>> THEN None ELSE Some(text)

\* mixin.rs 122-135: the metadata parsed, or its error
Mixin_of(cfg, script) ==
    IF cfg.kind # "Ok" THEN cfg
    ELSE ParseOk([yaml |-> Parsed(cfg), script |-> script_of(script)])

\* the lines k after the first that hold the delimiter
Closing(it) == {k \in 2..Len(it) : trim(it[k]) = Delimiter}

\* mixin.rs 100-135 on the lines `it` of the text, `closing` the lines that
\* close a header
Mixin_from_lines(it, closing, lib) ==
    LET end == CHOOSE k \in closing : \A j \in closing : k <= j
    IN IF it = <<>> THEN ParseErr("InvalidData")
       ELSE IF trim(it[1]) = Delimiter
       THEN IF closing = {} THEN ParseErr("InvalidData")
            ELSE Mixin_of(serde_yaml_from_str(join(SubSeq(it, 2, end - 1), LF), lib),
                          join(SubSeq(it, end + 1, Len(it)), LF))
       ELSE ParseOk([yaml |-> EmptyYaml, script |-> script_of(join(it, LF))])

Mixin_from_text(it, lib) == Mixin_from_lines(it, Closing(it), lib)

\* Mixin::try_from((path, reader)) on the text the reader yields
Mixin_try_from_content(content, lib) == Mixin_from_text(lines(replace_crlf(content)), lib)

\* the lines files are written from, and the text of a file with the lines
\* ls, each line but the last ended by eol, the last one if `terminated`
KeyLine == Key_base \o <<":", " ", "x">>
ListLine == Key_install \o <<":">>
ItemLine == <<" ", " ", "-", " ", "c">>
LineChoices ==
    {Delimiter, <<FF>> \o Delimiter \o <<" ">>, <<>>, KeyLine, ListLine, ItemLine,
     <<"e">>, <<"-", "-", "-", "-">>}
Content(ls, eol, terminated) ==
    Flatten([k \in 1..Len(ls) |->
               ls[k] \o (IF k < Len(ls) \/ terminated THEN eol ELSE <<>>)])

\* a last line that is empty shows in the text only if it is ended
FileInit ==
    /\ pmInput = <<>> /\ pmResult = None /\ MainIdle
    /\ \E ls \in SeqsUpTo(LineChoices, MaxLines), eol \in {<<LF>>, <<CR, LF>>},
          terminated \in BOOLEAN :
          /\ ls = <<>> => (~terminated /\ eol = <<LF>>)
          /\ (ls # <<>> /\ ls[Len(ls)] = <<>>) => terminated
          /\ codecIn = [origin |-> "text", type |-> "mixin", value |-> Some(ls),
                        text |-> Content(ls, eol, terminated)]
    /\ codecMid = None /\ codecOut = None

\* one call of Mixin::try_from on the text of a file
MixinParse ==
    /\ codecIn.type = "mixin" /\ codecMid = None
    /\ \E lib \in LibraryAnswers :
          codecMid' = Some(Mixin_try_from_content(codecIn.text, lib))
    /\ UNCHANGED <<pmInput, pmResult, mainVars, codecIn, codecOut>>

SpecFile == FileInit /\ [][MixinParse]_vars

\* the line, trimmed, is the delimiter
IsDelimiter(line) == trim(line) = Delimiter
\* the metadata lines are one `base: x` and blank otherwise
OneKey(ls) ==
    /\ Cardinality({k \in 1..Len(ls) : ls[k] = KeyLine}) = 1
    /\ \A k \in 1..Len(ls) : ls[k] \in {KeyLine, <<>>}

\* C16: Mixin::try_from on a file of the lines ls. No line: InvalidData. The
\* first line, trimmed, is the delimiter and no later line is exactly the
\* delimiter: InvalidData.
\* A later line is the delimiter, the first such being line c: whenever a
\* node is produced its metadata is what exactly the lines 2..c-1 are read
\* as and its script is exactly the lines after c, and one is produced, with
\* base x, when those lines are one `base: x` and blank lines; any error is
\* InvalidData. The first line is not the delimiter: the node has default
\* metadata and all lines as script. A script of no characters is no script.
C16_FileParsing ==
    (codecIn.type = "mixin" /\ IsSome(codecMid)) =>
       LET ls == Unwrap(codecIn.value)
           r == Unwrap(codecMid)
           closing == {k \in 2..Len(ls) : ls[k] = Delimiter}
       IN /\ r.kind \in {"Ok", "InvalidData"}
          /\ ls = <<>> => r.kind = "InvalidData"
          /\ (ls # <<>> /\ IsDelimiter(ls[1]) /\ closing = {}) => r.kind = "InvalidData"
          /\ (ls # <<>> /\ IsDelimiter(ls[1]) /\ closing # {}) =>
                LET c == CHOOSE k \in closing : \A j \in closing : k <= j
                    after == join(SubSeq(ls, c + 1, Len(ls)), LF)
                    between == join(SubSeq(ls, 2, c - 1), LF)
                IN /\ r.kind = "Ok" =>
                        /\ \E lib \in LibraryAnswers :
                              serde_yaml_from_str(between, lib) = ParseOk(Parsed(r).yaml)
                        /\ Parsed(r).script = IF after = <<>> THEN None ELSE Some(after)
                   /\ OneKey(SubSeq(ls, 2, c - 1)) =>
                        /\ r.kind = "Ok"
                        /\ Parsed(r).yaml = [EmptyYaml EXCEPT !.base = Some(<<"x">>)]
          /\ (ls # <<>> /\ ~IsDelimiter(ls[1])) =>
                /\ r.kind = "Ok"
                /\ Parsed(r).yaml = EmptyYaml
                /\ Parsed(r).script = IF join(ls, LF) = <<>> THEN None
                                       ELSE Some(join(ls, LF))

\* the positions of the entries of e that satisfy test
Positions(e, test(_)) == {k \in 1..Len(e) : test(e[k])}
IsCopy(c) == c.op = "COPY"
IsUser(c) == c.op = "USER"
IsInstallsFrom(c) == c.op = "COMMENT" /\ Words(c.a)[1] = Chars(<<"Installs">>)
IsExecScript(c) ==
    c.op = "COMMENT" /\ Len(Words(c.a)) >= 2
       /\ SubSeq(Words(c.a), 1, 2) = <<Chars(<<"Exec">>), Chars(<<"script">>)>>

\* the comment and the RUN of each file of `order` that has a script
ScriptsOf(order) ==
    Flatten([k \in 1..Len(order) |->
               IF IsSome(File(order[k]).script)
               THEN <<COMMENT(<<"Exec script from: ">> \o Path_display(order[k])),
                      RUN(<<"<<EOR\n/bin/sh -c ">>
                             \o Unwrap(File(order[k]).script) \o <<"\nEOR">>)>>
               ELSE <<>>])

\* the same of the merge order
ScriptSection == ScriptsOf(MergePaths)

\* C17: a converted Dockerfile starts with FROM, then the upgrade, the locale
\* bootstrap and the sudo bootstrap; the install batches lie between the sudo
\* bootstrap and the user provisioning, which ends in the one USER
\* instruction; the COPY instructions follow it directly; then one comment
\* and one RUN per file with a script, in merge order, the root's last; the
\* placeholder entrypoint is last.
C17_SynthesisOrder ==
    (Converted /\ IsSome(dockerfile)) =>
       LET e == Unwrap(dockerfile).entries
           n == Len(e)
           at(c) == CHOOSE k \in 1..n : e[k] = c
           locale == at(COMMENT(<<"Ensure UTF-8 Support">>))
           sudo == at(COMMENT(<<"Installing sudo and allow sudo for anyone">>))
           user == at(COMMENT(<<"Configure user">>))
           usr == CHOOSE k \in 1..n : IsUser(e[k])
           copies == Cardinality(Positions(e, IsCopy))
           copyEnd == usr + (IF copies = 0 THEN 0 ELSE copies + 1)
       IN /\ e[1].op = "FROM" /\ Positions(e, LAMBDA c : c.op = "FROM") = {1}
          /\ e[2] = COMMENT(<<"Update outdated default dependencies">>)
          /\ e[3].op = "RUN"
          /\ locale = 4 /\ locale < sudo /\ sudo + 2 < user
          /\ Positions(e, IsInstallsFrom) \subseteq (sudo + 3)..(user - 2)
          /\ \A k \in (sudo + 3)..(user - 1) :
                IF (k - sudo) % 2 = 1 THEN IsInstallsFrom(e[k]) ELSE e[k].op = "RUN"
          /\ Positions(e, IsUser) = {user + 5}
          /\ Positions(e, IsCopy) = {k \in (usr + 2)..copyEnd : TRUE}
          /\ copies > 0 => e[usr + 1] = COMMENT(<<"Adding context dirs">>)
          /\ SubSeq(e, copyEnd + 1, n - 2) = ScriptSection
          /\ Positions(e, IsExecScript) \subseteq (copyEnd + 1)..(n - 2)
          /\ e[n - 1] = COMMENT(<<"Exec bash as entrypoint">>)
          /\ e[n] = RUN(<<"/usr/bin/env bash">>)

\* the diamond with scripts in file 2 and in the root: a COPY, then the
\* script of file 2, then the root's
C17_Witness ==
    /\ Converted /\ IsSome(dockerfile)
    /\ MergePaths = [k \in 1..4 |-> FilePath(ToolDir, <<4, 2, 3, 1>>[k])]
    /\ Len(ScriptSection) = 4
    /\ ScriptSection[1]
          = COMMENT(<<"Exec script from: ">> \o Path_display(FilePath(ToolDir, 2)))
    /\ ScriptSection[3]
          = COMMENT(<<"Exec script from: ">> \o Path_display(FilePath(ToolDir, 1)))
    /\ Positions(Unwrap(dockerfile).entries, IsCopy) # {}

\* ------------------------------------------------------- host identities
\* what the conversion reads of the host: the identity of the invoking user
\* and the directory of the root file, listable or not
HostEnvironments ==
    ((HostChoices \cup NamelessHosts) \X {DirsOf(ToolDir, {"src", ".cache"})})
       \cup ({DefaultHost} \X {ToolDir :> Directory(FALSE)})

HostInit ==
    /\ PmIdle
    /\ \E e \in HostEnvironments :
          host = e[1] /\ fs = Files(PairFiles(Some(Base_ubuntu), None)) @@ e[2]
    /\ aliases = NoAliases
    /\ stdout = "open" /\ stderr = "open"
    /\ cli \in CliChoices /\ userCfg \in UserConfigs
    /\ images = {} /\ runs = 1 /\ prevTag = None
    /\ Started

SpecHost == HostInit /\ [][Main]_vars

\* the words of the command of e whose first word is `word`
CommandOf(e, word) ==
    Words(e[CHOOSE k \in 1..Len(e) : e[k].op = "RUN" /\ Words(e[k].a)[1] = Chars(<<word>>)].a)

\* C18: the uid and the gid of the USER instruction are the uid and the gid
\* of the groupadd, useradd and chown commands of the same Dockerfile, which
\* are those of the host.
C18_UserMirrorsHost ==
    IsSome(dockerfile) =>
       LET e == Unwrap(dockerfile).entries
           user == e[CHOOSE k \in 1..Len(e) : e[k].op = "USER"]
           groupadd == CommandOf(e, "groupadd")
           useradd == CommandOf(e, "useradd")
           chown == CommandOf(e, "chown")
           owner == Split(chown[2], ":")
       IN /\ groupadd[3] = Chars(<<ToString(host.gid)>>)
          /\ useradd[3] = Chars(<<ToString(host.gid)>>)
          /\ useradd[5] = Chars(<<ToString(host.uid)>>)
          /\ owner = <<Chars(<<ToString(host.uid)>>), Chars(<<ToString(host.gid)>>)>>
          /\ user.a = useradd[5] /\ user.a = owner[1]
          /\ user.b = groupadd[3] /\ user.b = useradd[3]
          /\ user.b = owner[2]

\* C19: with --dry-run no engine operation is invoked and the image store is
\* not asked, whatever the force flag and the images present, and a dry run
\* that has come to its end without a failure has written the text of the
\* Dockerfile to standard output.
C19_DryRunNoEngine ==
    cli.dry_run =>
       /\ calls = <<>> /\ existsResult = "" /\ buildResult = "" /\ runResult = ""
       /\ (pc = "done" /\ failure = "" /\ IsSome(dockerfile)) =>
             out = Some(write_to(Unwrap(dockerfile))) /\ exit = "ok"

====
